---- MODULE Spec2Model ----
(***************************************************************************)
(* A model of azul.py: the TaskThread worker (a pipe of signal bytes, a    *)
(* queue of tasks and a gevent pool of greenlets), the tasks' process()    *)
(* methods, the EventBus (idle callbacks of the GLib main loop, the URL    *)
(* cache and its lock) and the AvatarView listeners of 'data-loaded'.      *)
(*                                                                         *)
(* Threads: the main thread runs the EventBus operations and the idle      *)
(* callbacks; the worker thread runs TaskThread.run and, cooperatively,    *)
(* one greenlet at a time (cur names the greenlet holding the thread, 0    *)
(* when the hub holds it and every greenlet is parked at a blocking call). *)
(***************************************************************************)
EXTENDS Integers, Sequences, FiniteSets, TLC

\* ------------------------------------------------------------------ bounds
MaxTasks == 3        \* tasks in all, for a request of the user interface
MaxSends == 4        \* tasks in all, for a message sent (SpecThread)
MaxQuits == 1        \* calls of EventBus.quit (Window.quit and main)
MaxRequests == 3     \* direct calls of EventBus.load_data_from_url
MaxViews == 3        \* AvatarView objects constructed
MaxEvents == 3       \* events the server puts on an account's event queue
MaxPolls == 2        \* get_events calls that return, per long-poll loop
MaxBusTasks == 2     \* tasks in all, for a request of the user (SpecBus)
MaxBusEvents == 1    \* messages sent to the account's streams (SpecBus)

MaxApplies == 2      \* times Save is pressed in an AccountDialog
MaxMessages == 7     \* messages of the narrow on the server
PageSize == 3        \* num_before of a messages request (40 in the source)
MaxLive == 1         \* messages that arrive as live events
MaxBatch == 1        \* events of one message-events emission
MaxGroups == 2       \* topic groups of a view before another page is loaded
PageHeight == 2      \* page size of the view's adjustment, in rows
MaxBackfills == 2    \* older pages asked for while the view is scrolled
MaxLoads == 1        \* loads of the newest page of a narrow
MaxSwitches == 2     \* narrows selected one after the other (SpecSwitch)
MaxText == 4         \* characters of the text in the search field
MaxSearches == 2     \* searches started for one text
MaxScroll == 3       \* largest value the scrollbar is moved to

Accts == {"a1"}                  \* accounts of the persisted settings
NewAccts == {"a2"}               \* AccountModel objects an AccountDialog creates
Servers == {"", "s1", "s2"}      \* texts of the dialog's server entry
Emails == {<<"u", "@", "h">>, <<"u", "h">>}   \* and of its email entry
Passwords == {"", "pw"}          \* and of its password entry
Topics == {"t1", "t2"}           \* topic names of messages
Senders == {1, 2}                \* sender ids of messages
Streams == {1, 2}                \* stream ids of messages
Urls == {"u1", "u2"}             \* avatar URLs
Bytes == {"b1", "b2"}            \* contents a URL fetch can return

\* ------------------------------------------------------------------- state
VARIABLES
    accounts,    \* EventBus._accounts: account -> its AccountModel fields
    tasks,       \* every task handed to TaskThread.add_task, in order
    pc,          \* per task: where its greenlet is
    mon,         \* per task: the locals of MonitorAccountEventsTask.process
    taskQueue,   \* TaskThread._tasks
    pipe,        \* bytes written to _signal_writer and not read yet
    worker,      \* TaskThread.run: "running", "blocked", "killing", "terminated"
    startQ,      \* greenlets spawned and not started (the hub's callbacks)
    cur,         \* the task whose greenlet holds the worker thread, 0: the hub
    startLog,    \* task ids in the order their process() started
    idleQ,       \* callbacks queued by GLib.idle_add, not dispatched yet
    delivered,   \* emissions dispatched to the listeners, in order
    quits,       \* number of EventBus.quit calls
    quitAt,      \* number of tasks submitted when quit was first called
    quitStarted, \* number of tasks started when quit was first called
    cache,       \* EventBus._cache: url -> "absent", "loading" or bytes
    mainBlocked, \* the main thread waits for _cache_lock, which it holds
    requests,    \* number of direct load_data_from_url calls
    avatarCache, \* AvatarView._cache: url -> "missing", "none" or bytes
    views,       \* the AvatarView objects
    serverLog,   \* per account: the events of its event queue on the server
    registry,    \* EventBus._accounts: its (key, account) items, in order
    settings,    \* the 'accounts' value of Gio.Settings: (server, email, key)
    keyring,     \* the (server, email) pairs that have a stored password
    dialog,      \* AccountDialog: the arguments and result of set_account
    messagesView,   \* MessagesView: listbox, narrow, topic_views, ...
    serverMessages, \* the messages of the account on the server, oldest first
    headerBar       \* HeaderBar: stream and the text of the search field

vars == <<accounts, tasks, pc, mon, taskQueue, pipe, worker, startQ, cur,
          startLog, idleQ, delivered, quits, quitAt, quitStarted, cache,
          mainBlocked,
          requests, avatarCache, views, serverLog, registry, settings,
          keyring, dialog, messagesView, serverMessages, headerBar>>

threadVars == <<tasks, pc, mon, taskQueue, pipe>>
cacheVars == <<cache, mainBlocked, requests, avatarCache, views>>
acctVars == <<registry, settings, keyring, dialog>>
feedVars == <<messagesView, serverMessages, headerBar>>

\* ----------------------------------------------------------------- helpers
Last(s) == s[Len(s)]

RECURSIVE FlattenSeq(_)
FlattenSeq(ss) == IF ss = <<>> THEN <<>> ELSE Head(ss) \o FlattenSeq(Tail(ss))

IsPrefix(s, t) == Len(s) <= Len(t) /\ SubSeq(t, 1, Len(s)) = s

RECURSIVE MapIds(_)
MapIds(es) == IF es = <<>> THEN <<>> ELSE <<Head(es).id>> \o MapIds(Tail(es))

TaskIds == 1..Len(tasks)

OneShotKinds == {"GetApiKeyTask", "LoadDataTask", "LoadAccountTask",
                 "LoadStreamsTask", "LoadTopicsTask", "LoadMessagesTask",
                 "SendMessageTask"}

\* A greenlet that has ended, and how.
Ended == {"done", "faulted", "killed"}

\* ------------------------------------------------------------- data model
\* AccountModel: index, server, email, apikey set or not, info (0: None, 1:
\* without icon, 2: with icon), queue registered or not, the queue's cursor.
AccountModel(index, server, email, apikey) ==
    [index |-> index, server |-> server, email |-> email, apikey |-> apikey,
     info |-> 0, queue |-> FALSE, last_event_id |-> -1]

Task(kind, acct, arg) == [kind |-> kind, acct |-> acct, arg |-> arg]

\* key in d, for a dict kept as its items in insertion order
DictHas(d, key) == \E i \in 1..Len(d) : d[i].key = key

\* d[key] = obj: a dict keeps a key's position when its value
\* is replaced and puts a new key last.
DictSet(d, key, obj) ==
    IF DictHas(d, key)
    THEN [i \in 1..Len(d) |-> IF d[i].key = key THEN [d[i] EXCEPT !.obj = obj]
                               ELSE d[i]]
    ELSE Append(d, [key |-> key, obj |-> obj])

\* A message: its id, its stream_id, its topic_name and its sender_id.
Message(id, stream, topic, sender) ==
    [id |-> id, stream |-> stream, topic |-> topic, sender |-> sender]

\* SearchNarrow: stream is a stream id (0 for None), topic a topic name (""
\* for None), query the dict as its items in insertion order. An operand
\* is a string kept as its characters, a word counting as one.
SearchNarrow(stream, topic, query) ==
    [stream |-> stream, topic |-> topic, query |-> query]

\* stream.name of the stream with an id.
StreamNames == <<"general", "dev">>

\* Mutant of to_data: the explicit stream and topic are always emitted.
to_data_always(narrow) ==
    [i \in 1..Len(narrow.query) |->
        [operator |-> narrow.query[i].key, operand |-> narrow.query[i].obj]]
    \o (IF narrow.stream # 0
        THEN <<[operator |-> "stream",
                operand |-> <<StreamNames[narrow.stream]>>]>>
        ELSE <<>>)
    \o (IF narrow.topic # ""
        THEN <<[operator |-> "topic", operand |-> <<narrow.topic>>]>>
        ELSE <<>>)

\* SearchNarrow.to_data
to_data(narrow) ==
    [i \in 1..Len(narrow.query) |->
        [operator |-> narrow.query[i].key, operand |-> narrow.query[i].obj]]
    \o (IF narrow.stream # 0 /\ ~DictHas(narrow.query, "stream")
        THEN <<[operator |-> "stream",
                operand |-> <<StreamNames[narrow.stream]>>]>>
        ELSE <<>>)
    \o (IF narrow.topic # "" /\ ~DictHas(narrow.query, "topic")
        THEN <<[operator |-> "topic", operand |-> <<narrow.topic>>]>>
        ELSE <<>>)

\* self.narrow = None
NoNarrow == [none |-> TRUE]

\* The messages that the server finds for the 'narrow' of a request: those
\* in the stream and the topic of every stream and topic term (the other
\* operators are taken to match every message).
MatchingData(messages, data) ==
    SelectSeq(messages,
              LAMBDA m : \A i \in 1..Len(data) :
                 /\ data[i].operator = "stream"
                       => data[i].operand = <<StreamNames[m.stream]>>
                 /\ data[i].operator = "topic"
                       => data[i].operand = <<m.topic>>)

\* 'narrow': self.narrow.to_data() in the request of LoadMessagesTask.
Matching(messages, narrow) == MatchingData(messages, to_data(narrow))

\* The reply to LoadMessagesTask's request with the default anchor (larger
\* than any id) and num_after 0: the newest PageSize messages.
InitialPage(messages) ==
    [messages |-> SubSeq(messages,
                         IF Len(messages) > PageSize
                         THEN Len(messages) - PageSize + 1 ELSE 1,
                         Len(messages)),
     found_newest |-> TRUE,
     found_oldest |-> Len(messages) <= PageSize]

\* The reply to the request anchored at a message: the message itself and
\* the PageSize messages before it.
OlderPage(messages, anchor) ==
    LET upto == SelectSeq(messages, LAMBDA m : m.id <= anchor) IN
    [messages |-> SubSeq(upto,
                         IF Len(upto) > PageSize + 1
                         THEN Len(upto) - PageSize ELSE 1,
                         Len(upto)),
     found_newest |-> FALSE,
     found_oldest |-> Len(upto) <= PageSize + 1]

\* The anchor of LoadMessagesTask when none is given (10000000000000000 in
\* the source): larger than every message id.
DefaultAnchor == 2147483647

\* The keyword arguments of EventBus.load_messages, handed to the task.
Request(narrow, anchor) == [narrow |-> narrow, anchor |-> anchor]

\* The result of the messages request of LoadMessagesTask.process.
MessagesReply(messages, request) ==
    IF request.anchor = DefaultAnchor
    THEN InitialPage(Matching(messages, request.narrow))
    ELSE OlderPage(Matching(messages, request.narrow), request.anchor)

\* The LoadMessagesTasks for the newest page (newest TRUE) and those for a
\* page anchored at a message.
MessagesTasks(newest) ==
    {t \in TaskIds : /\ tasks[t].kind = "LoadMessagesTask"
                     /\ (tasks[t].arg.anchor = DefaultAnchor) = newest}

\* The locals of a long-poll loop: req, the last_event_id of the request
\* being waited for; prev, that of the request before; events, the parsed
\* result in hand; history, every result that came back (raw) with the
\* way its handling ended ("pending", "ok" or "raised").
NoMon == [req |-> -1, prev |-> -1, events |-> <<>>, history |-> <<>>]

\* An emission: the signal, the task that emitted it (0: the main thread),
\* the account, one scalar argument and the data.
Emission(sig, t, acct, arg, data) ==
    [signal |-> sig, task |-> t, acct |-> acct, arg |-> arg, data |-> data]

\* EventModel.from_data: a 'message' event becomes a MessageEventModel, and
\* building its MessageModel raises when the nested message lacks a key;
\* every other type becomes a plain EventModel (unknown types are logged).
EventModel_from_data(data) ==
    IF data.type = "message"
    THEN IF data.valid
         THEN [cls |-> "MessageEventModel", id |-> data.id]
         ELSE [cls |-> "raise", id |-> data.id]
    ELSE [cls |-> "EventModel", id |-> data.id]

RECURSIVE ParseEvents(_)
ParseEvents(raw) ==
    IF raw = <<>> THEN <<>>
    ELSE <<EventModel_from_data(Head(raw))>> \o ParseEvents(Tail(raw))

ParseRaises(raw) == \E i \in 1..Len(raw) : EventModel_from_data(raw[i]).cls = "raise"

IsMessageEvent(e) == e.cls = "MessageEventModel"

\* The list comprehension of MonitorAccountEventsTask.process.
message_events(events) == SelectSeq(events, IsMessageEvent)

\* events[-1].id
NewCursor(events) == events[Len(events)].id

\* Mutants of MonitorExcept: every exception ends the loop; none does.
MonitorExceptRaiseAll(exc) == "raise"
MonitorExceptSwallowAll(exc) == "retry"

\* The except clauses of the loop: GreenletExit is re-raised, anything else
\* is printed and the loop goes on.
MonitorExcept(exc) == IF exc = "GreenletExit" THEN "raise" ELSE "retry"

\* ---------------------------------------------------------- TaskThread
\* Mutant of TaskQueuePut: the task is not put on the queue.
TaskQueuePutDropped(q, t) == q

\* queue.Queue() has no maximum size: put(block=False) always succeeds.
TaskQueuePut(q, t) == Append(q, t)

\* Mutant of TaskQueueGet: the newest task first.
TaskQueueGetLast(q) == [task |-> Last(q), rest |-> SubSeq(q, 1, Len(q) - 1)]

\* queue.Queue.get: the oldest task.
TaskQueueGet(q) == [task |-> Head(q), rest |-> Tail(q)]

\* TaskThread.add_task, as a part of the action that calls it.
AddTask(task) ==
    /\ tasks' = Append(tasks, task)
    /\ pc' = Append(pc, "queued")
    /\ mon' = Append(mon, NoMon)
    /\ taskQueue' = TaskQueuePut(taskQueue, Len(tasks) + 1)
    /\ pipe' = Append(pipe, 1)

\* Mutant of emit_from_main_thread: the newest callback runs first.
emit_from_main_thread_first(q, em) == <<em>> \o q

\* EventBus.emit_from_main_thread: GLib.idle_add appends the callback to
\* the main loop's idle sources, which are dispatched in the order added.
emit_from_main_thread(q, em) == Append(q, em)

\* Mutant of EmitterThread: the signal is emitted where the task runs.
EmitterThreadOfCaller(em) == IF em.task = 0 THEN "main" ELSE "worker"

\* The thread that runs the emitter closure of emit_from_main_thread, and so
\* the listeners of its signal: GLib.idle_add attaches it to the default
\* main context, which Gtk.main() iterates on the main thread.
EmitterThread(em) == "main"

\* An emission as the listeners receive it, with the thread they run on.
Dispatched(em) ==
    [signal |-> em.signal, task |-> em.task, acct |-> em.acct, arg |-> em.arg,
     data |-> em.data, thread |-> EmitterThread(em)]

\* What GreenletExit does to a greenlet of the pool.
Killed(t) ==
    IF pc[t] \in Ended \cup {"queued"} THEN pc[t]
    ELSE IF pc[t] = "spawned" THEN "killed"
    ELSE IF tasks[t].kind = "MonitorAccountEventsTask"
         THEN IF MonitorExcept("GreenletExit") = "raise" THEN "killed" ELSE "wait"
         ELSE "killed"

\* TaskThread.quit, called by EventBus.quit on the main thread.
Quit ==
    /\ ~mainBlocked
    /\ quits < MaxQuits
    /\ quits' = quits + 1
    /\ quitAt' = IF quits = 0 THEN Len(tasks) ELSE quitAt
    /\ quitStarted' = IF quits = 0 THEN Len(startLog) ELSE quitStarted
    /\ pipe' = Append(pipe, 0)
    /\ UNCHANGED <<accounts, tasks, pc, mon, taskQueue, worker, startQ, cur,
                   startLog, idleQ, delivered, cacheVars, serverLog,
                   acctVars, feedVars>>

\* One iteration of TaskThread.run: read a byte; 0 leaves the loop and
\* pool.kill() raises GreenletExit in every greenlet and waits for them;
\* otherwise the next task is taken from the queue and spawned.
WorkerRead ==
    /\ worker = "running"
    /\ cur = 0
    /\ pipe # <<>>
    /\ pipe' = Tail(pipe)
    /\ IF Head(pipe) = 0
       THEN /\ pc' = [t \in TaskIds |-> Killed(t)]
            /\ startQ' = <<>>
            /\ worker' = IF \A t \in TaskIds : Killed(t) \in Ended \cup {"queued"}
                         THEN "terminated" ELSE "killing"
            /\ UNCHANGED taskQueue
       ELSE IF taskQueue = <<>>
       THEN /\ worker' = "blocked"
            /\ UNCHANGED <<pc, startQ, taskQueue>>
       ELSE LET got == TaskQueueGet(taskQueue) IN
            /\ taskQueue' = got.rest
            /\ pc' = [pc EXCEPT ![got.task] = "spawned"]
            /\ startQ' = Append(startQ, got.task)
            /\ UNCHANGED worker
    /\ UNCHANGED <<accounts, tasks, mon, cur, startLog, idleQ, delivered,
                   quits, quitAt, quitStarted, acctVars, feedVars, cacheVars,
                   serverLog>>

\* The hub starts the oldest spawned greenlet: process() runs up to its
\* first network call and blocks there.
GreenletStart ==
    /\ worker = "running"
    /\ cur = 0
    /\ startQ # <<>>
    /\ LET t == Head(startQ) IN
       /\ startQ' = Tail(startQ)
       /\ startLog' = Append(startLog, t)
       /\ IF tasks[t].kind = "MonitorAccountEventsTask"
          THEN /\ pc' = [pc EXCEPT ![t] = "wait"]
               /\ mon' = [mon EXCEPT ![t].req = accounts[tasks[t].acct].last_event_id]
          ELSE /\ pc' = [pc EXCEPT ![t] = "io1"]
               /\ UNCHANGED mon
    /\ UNCHANGED <<accounts, tasks, taskQueue, pipe, worker, cur, idleQ,
                   delivered, quits, quitAt, quitStarted,
                   acctVars, feedVars, cacheVars, serverLog>>


\* ------------------------------------------------------------ the tasks
Blocked(t, kind, at) ==
    /\ t \in TaskIds
    /\ worker = "running"
    /\ cur = 0
    /\ tasks[t].kind = kind
    /\ pc[t] = at

\* Mutant of GetApiKeySignal: an error result is taken for a key.
GetApiKeySignalIgnoreError(outcome) ==
    IF outcome = "ZulipError" THEN "login-failed" ELSE "api-key-retrieved"

\* The branches of GetApiKeyTask.process: the except clause and the test of
\* result['result'].
GetApiKeySignal(outcome) ==
    IF outcome \in {"ZulipError", "error"} THEN "login-failed"
    ELSE "api-key-retrieved"

\* GetApiKeyTask.process: a ZulipError and an error result both become
\* login-failed; a key is stored in the account and api-key-retrieved follows.
GetApiKeyTaskProcess(t) ==
    /\ Blocked(t, "GetApiKeyTask", "io1")
    /\ \E outcome \in {"ok", "error", "ZulipError"} :
       LET a == tasks[t].acct IN
       /\ pc' = [pc EXCEPT ![t] = "done"]
       /\ IF GetApiKeySignal(outcome) = "api-key-retrieved"
          THEN /\ accounts' = [accounts EXCEPT ![a].apikey = (outcome = "ok")]
               /\ idleQ' = emit_from_main_thread(idleQ,
                               Emission("api-key-retrieved", t, a, 0, <<>>))
          ELSE /\ idleQ' = emit_from_main_thread(idleQ,
                               Emission("login-failed", t, a, 0, <<outcome>>))
               /\ UNCHANGED accounts
    /\ UNCHANGED <<tasks, mon, taskQueue, pipe, worker, startQ, cur, startLog,
                   delivered, quits, quitAt, quitStarted,
                   acctVars, feedVars, cacheVars, serverLog>>

\* LoadDataTask.process: requests.get either returns the bytes, which are
\* emitted as data-loaded, or raises, and nothing catches it.
LoadDataTaskProcess(t) ==
    /\ Blocked(t, "LoadDataTask", "io1")
    /\ \E outcome \in Bytes \cup {"raise"} :
       IF outcome = "raise"
       THEN /\ pc' = [pc EXCEPT ![t] = "faulted"]
            /\ UNCHANGED idleQ
       ELSE /\ pc' = [pc EXCEPT ![t] = "done"]
            /\ idleQ' = emit_from_main_thread(idleQ,
                            Emission("data-loaded", t, tasks[t].acct,
                                     tasks[t].arg, <<outcome>>))
    /\ UNCHANGED <<accounts, tasks, mon, taskQueue, pipe, worker, startQ, cur,
                   startLog, delivered, quits, quitAt, quitStarted,
                   acctVars, feedVars, cacheVars, serverLog>>

\* The results of the three network calls of LoadAccountTask.process:
\* server_settings and register are API calls (a result, an error result or
\* a raised ZulipError), the icon is fetched with requests.get.
LoadAccountOutcomes(at) ==
    IF at = "io2" THEN {"ok", "raise"} ELSE {"ok", "error", "raise"}

\* LoadAccountTask.process: server_settings (account.info is set), the icon
\* (info.icon is set), register (account.queue is set), then account-loaded.
\* An error result lacks the mapped keys, so from_data raises; no exception
\* is caught.
LoadAccountTaskProcess(t) ==
    /\ t \in TaskIds
    /\ worker = "running"
    /\ cur = 0
    /\ tasks[t].kind = "LoadAccountTask"
    /\ pc[t] \in {"io1", "io2", "io3"}
    /\ \E outcome \in LoadAccountOutcomes(pc[t]) :
       LET a == tasks[t].acct IN
       IF outcome # "ok"
       THEN /\ pc' = [pc EXCEPT ![t] = "faulted"]
            /\ UNCHANGED <<accounts, idleQ, serverLog>>
       ELSE IF pc[t] = "io1"
       THEN /\ pc' = [pc EXCEPT ![t] = "io2"]
            /\ accounts' = [accounts EXCEPT ![a].info = 1]
            /\ UNCHANGED <<idleQ, serverLog>>
       ELSE IF pc[t] = "io2"
       THEN /\ pc' = [pc EXCEPT ![t] = "io3"]
            /\ accounts' = [accounts EXCEPT ![a].info = 2]
            /\ UNCHANGED <<idleQ, serverLog>>
       ELSE /\ pc' = [pc EXCEPT ![t] = "done"]
            /\ accounts' = [accounts EXCEPT ![a].queue = TRUE,
                                            ![a].last_event_id = -1]
            /\ serverLog' = [serverLog EXCEPT ![a] = <<>>]
            /\ idleQ' = emit_from_main_thread(idleQ,
                            Emission("account-loaded", t, a, 0, <<>>))
    /\ UNCHANGED <<tasks, mon, taskQueue, pipe, worker, startQ, cur, startLog,
                   delivered, quits, quitAt, quitStarted, acctVars, feedVars,
                   cacheVars>>

\* LoadStreamsTask.process: the streams are emitted; an error result has no
\* 'subscriptions' key and a ZulipError is not caught.
LoadStreamsTaskProcess(t) ==
    /\ Blocked(t, "LoadStreamsTask", "io1")
    /\ \E outcome \in {"ok", "error", "raise"} :
       IF outcome = "ok"
       THEN /\ pc' = [pc EXCEPT ![t] = "done"]
            /\ idleQ' = emit_from_main_thread(idleQ,
                            Emission("account-streams-loaded", t, tasks[t].acct,
                                     0, <<>>))
       ELSE /\ pc' = [pc EXCEPT ![t] = "faulted"]
            /\ UNCHANGED idleQ
    /\ UNCHANGED <<accounts, tasks, mon, taskQueue, pipe, worker, startQ, cur,
                   startLog, delivered, quits, quitAt, quitStarted,
                   acctVars, feedVars, cacheVars, serverLog>>

\* LoadTopicsTask.process: as LoadStreamsTask, with the 'topics' key.
LoadTopicsTaskProcess(t) ==
    /\ Blocked(t, "LoadTopicsTask", "io1")
    /\ \E outcome \in {"ok", "error", "raise"} :
       IF outcome = "ok"
       THEN /\ pc' = [pc EXCEPT ![t] = "done"]
            /\ idleQ' = emit_from_main_thread(idleQ,
                            Emission("stream-topics-loaded", t, tasks[t].acct,
                                     tasks[t].arg, <<>>))
       ELSE /\ pc' = [pc EXCEPT ![t] = "faulted"]
            /\ UNCHANGED idleQ
    /\ UNCHANGED <<accounts, tasks, mon, taskQueue, pipe, worker, startQ, cur,
                   startLog, delivered, quits, quitAt, quitStarted,
                   acctVars, feedVars, cacheVars, serverLog>>

\* LoadMessagesTask.process: code BAD_NARROW becomes message-narrow-failed,
\* any other result goes to MessagesModel.from_data, which raises on an
\* error result (no 'messages' key), and then messages-loaded.
LoadMessagesTaskProcess(t) ==
    /\ Blocked(t, "LoadMessagesTask", "io1")
    /\ \E outcome \in {"ok", "BAD_NARROW", "error", "raise"} :
       IF outcome \in {"error", "raise"}
       THEN /\ pc' = [pc EXCEPT ![t] = "faulted"]
            /\ UNCHANGED idleQ
       ELSE /\ pc' = [pc EXCEPT ![t] = "done"]
            /\ idleQ' = emit_from_main_thread(idleQ,
                            IF outcome = "ok"
                            THEN Emission("messages-loaded", t, tasks[t].acct,
                                          tasks[t].arg,
                                          <<MessagesReply(serverMessages,
                                                          tasks[t].arg)>>)
                            ELSE Emission("message-narrow-failed", t,
                                          tasks[t].acct, tasks[t].arg, <<>>))
    /\ UNCHANGED <<accounts, tasks, mon, taskQueue, pipe, worker, startQ, cur,
                   startLog, delivered, quits, quitAt, quitStarted,
                   acctVars, feedVars, cacheVars, serverLog>>

\* SendMessageTask.process: send_message returns (whatever the result says)
\* or raises; no event is emitted either way.
SendMessageTaskProcess(t) ==
    /\ Blocked(t, "SendMessageTask", "io1")
    /\ \E outcome \in {"ok", "error", "raise"} :
       pc' = [pc EXCEPT ![t] = IF outcome = "raise" THEN "faulted" ELSE "done"]
    /\ UNCHANGED <<accounts, tasks, mon, taskQueue, pipe, worker, startQ, cur,
                   startLog, idleQ, delivered, quits, quitAt, quitStarted,
                   acctVars, feedVars, cacheVars,
                   serverLog>>


\* ------------------------------------------------- the long-poll loop
EventShapes == {[type |-> "message", valid |-> TRUE],
                [type |-> "message", valid |-> FALSE],
                [type |-> "heartbeat", valid |-> TRUE],
                [type |-> "typing", valid |-> TRUE]}

\* The server puts an event on the account's event queue; ids count from 0.
ServerEventUpTo(a, shapes, max) ==
    /\ accounts[a].queue
    /\ Len(serverLog[a]) < max
    /\ \E shape \in shapes :
       serverLog' = [serverLog EXCEPT ![a] =
                        Append(@, [id |-> Len(@), type |-> shape.type,
                                   valid |-> shape.valid,
                                   message |-> Message(Len(@) + 1, 1, "t1", 1)])]
    /\ UNCHANGED <<accounts, threadVars, worker, startQ, cur, startLog, idleQ,
                   delivered, quits, quitAt, quitStarted, acctVars, feedVars,
                   cacheVars>>

ServerEvent(a) == ServerEventUpTo(a, EventShapes, MaxEvents)

\* A message is sent to a stream of the account.
ServerMessage(a) ==
    ServerEventUpTo(a, {[type |-> "message", valid |-> TRUE]}, MaxBusEvents)

\* What get_events(last_event_id = c) can come back with: an exception (or
\* an error result, which has no 'events' key), or the events after c up to
\* some later one (none of them included).
PollResults(a, c) ==
    {[raised |-> TRUE, events |-> <<>>]} \cup
    {[raised |-> FALSE, events |-> SubSeq(serverLog[a], c + 2, j)] :
        j \in (c + 1)..Len(serverLog[a])}

HistoryEntry(raw, outcome) == [raw |-> raw, outcome |-> outcome]

\* The loop starts over: the next get_events call reads the cursor.
NextCall(m, cursor) == [m EXCEPT !.prev = m.req, !.req = cursor, !.events = <<>>]

SetOutcome(m, outcome) ==
    [m EXCEPT !.history[Len(m.history)].outcome = outcome]

\* get_events returns in a loop: the result is parsed; an exception from
\* the call or from EventModel.from_data goes to the except clauses.
MonitorReturn(t) ==
    /\ Blocked(t, "MonitorAccountEventsTask", "wait")
    /\ Len(mon[t].history) < MaxPolls
    /\ \E result \in PollResults(tasks[t].acct, mon[t].req) :
       LET a == tasks[t].acct
           m == [mon[t] EXCEPT !.history =
                     Append(@, HistoryEntry(result.events, "pending"))]
       IN
       IF result.raised \/ ParseRaises(result.events)
       THEN /\ mon' = [mon EXCEPT ![t] =
                          NextCall(SetOutcome(m, "raised"),
                                   accounts[a].last_event_id)]
            /\ pc' = [pc EXCEPT ![t] =
                          IF MonitorExcept("Exception") = "retry"
                          THEN "wait" ELSE "faulted"]
            /\ UNCHANGED cur
       ELSE /\ mon' = [mon EXCEPT ![t] =
                          [m EXCEPT !.events = ParseEvents(result.events)]]
            /\ pc' = [pc EXCEPT ![t] = "parsed"]
            /\ cur' = t
    /\ UNCHANGED <<accounts, tasks, taskQueue, pipe, worker, startQ, startLog,
                   idleQ, delivered, quits, quitAt, quitStarted,
                   acctVars, feedVars, cacheVars, serverLog>>

\* Mutant of MonitorNotify: the notification is not emitted.
MonitorNotifySkipped(q, me, t, a) == q

\* if message_events: bus.emit_from_main_thread('message-events', ...)
MonitorNotify(q, me, t, a) ==
    IF me # <<>>
    THEN emit_from_main_thread(q, Emission("message-events", t, a, 0, MapIds(me)))
    ELSE q

\* The message events of the result are emitted, if there are any.
MonitorEmit(t) ==
    /\ t \in TaskIds
    /\ cur = t
    /\ pc[t] = "parsed"
    /\ pc' = [pc EXCEPT ![t] = "emitted"]
    /\ idleQ' = MonitorNotify(idleQ, message_events(mon[t].events), t,
                            tasks[t].acct)
    /\ UNCHANGED <<accounts, tasks, mon, taskQueue, pipe, worker, startQ, cur,
                   startLog, delivered, quits, quitAt, quitStarted,
                   acctVars, feedVars, cacheVars, serverLog>>

\* account.queue.last_event_id = events[-1].id, an IndexError when the
\* result held no event; then the next get_events call.
MonitorAdvance(t) ==
    /\ t \in TaskIds
    /\ cur = t
    /\ pc[t] = "emitted"
    /\ cur' = 0
    /\ LET a == tasks[t].acct IN
       IF mon[t].events = <<>>
       THEN /\ mon' = [mon EXCEPT ![t] =
                          NextCall(SetOutcome(mon[t], "raised"),
                                   accounts[a].last_event_id)]
            /\ pc' = [pc EXCEPT ![t] =
                          IF MonitorExcept("Exception") = "retry"
                          THEN "wait" ELSE "faulted"]
            /\ UNCHANGED accounts
       ELSE /\ accounts' = [accounts EXCEPT
                               ![a].last_event_id = NewCursor(mon[t].events)]
            /\ mon' = [mon EXCEPT ![t] =
                          NextCall(SetOutcome(mon[t], "ok"),
                                   NewCursor(mon[t].events))]
            /\ pc' = [pc EXCEPT ![t] = "wait"]
    /\ UNCHANGED <<tasks, taskQueue, pipe, worker, startQ, startLog, idleQ,
                   delivered, quits, quitAt, quitStarted,
                   acctVars, feedVars, cacheVars, serverLog>>

\* ------------------------------------------------------------- EventBus
\* Mutant of LoadAccountKind: the account is loaded without a login.
LoadAccountKindNoLogin(acct) == "LoadAccountTask"

\* EventBus._load_account: without an API key the key is fetched first.
LoadAccountKind(acct) ==
    IF ~acct.apikey THEN "GetApiKeyTask" ELSE "LoadAccountTask"

\* Mutant of CacheBranch: a pending entry is fetched again.
CacheBranchRefetch(c, u) ==
    IF c[u] \in {"absent", "loading"} THEN "fetch" ELSE "emit"

\* The branches of EventBus.load_data_from_url.
CacheBranch(c, u) ==
    IF c[u] # "absent"
    THEN IF c[u] = "loading" THEN "return" ELSE "emit"
    ELSE "fetch"

\* EventBus.load_data_from_url, as a part of the action that calls it. With
\* the bytes cached, data-loaded is emitted while _cache_lock is held: the
\* first listener is the bus's own on_data_loaded, which waits for the lock.
LoadDataFromUrl(a, u) ==
    LET branch == CacheBranch(cache, u) IN
    /\ IF branch = "fetch"
       THEN /\ cache' = [cache EXCEPT ![u] = "loading"]
            /\ AddTask(Task("LoadDataTask", a, u))
       ELSE UNCHANGED <<cache, threadVars>>
    /\ mainBlocked' = (branch = "emit")

\* A component calls EventBus.load_data_from_url.
load_data_from_url(a, u) ==
    /\ ~mainBlocked
    /\ requests < MaxRequests
    /\ requests' = requests + 1
    /\ LoadDataFromUrl(a, u)
    /\ UNCHANGED <<accounts, worker, startQ, cur, startLog, idleQ, delivered,
                   quits, quitAt, quitStarted,
                   acctVars, feedVars, avatarCache, views, serverLog>>

\* Mutant of AvatarViewMatches: the url is not compared.
AvatarViewMatchesAny(v, url) == TRUE

\* AvatarView.on_data_loaded: only for the view's own url.
AvatarViewMatches(v, url) == url = v.url

\* AvatarView.__init__: bytes in AvatarView._cache are shown at once; the
\* view connects to data-loaded; a url never seen is marked None in
\* AvatarView._cache and requested from the bus. asked records the bus
\* cache's entry at that moment.
AvatarViewInit(a, u) ==
    /\ ~mainBlocked
    /\ Len(views) < MaxViews
    /\ LET cached == avatarCache[u] IN
       /\ views' = Append(views,
              [url |-> u, connected |-> TRUE, asked |-> cache[u],
               image |-> IF cached \notin {"missing", "none"}
                         THEN cached ELSE "noimage"])
       /\ IF cached = "missing"
          THEN /\ avatarCache' = [avatarCache EXCEPT ![u] = "none"]
               /\ LoadDataFromUrl(a, u)
          ELSE UNCHANGED <<avatarCache, cache, mainBlocked, threadVars>>
    /\ UNCHANGED <<accounts, worker, startQ, cur, startLog, idleQ, delivered,
                   quits, quitAt, quitStarted, acctVars, feedVars, requests,
                   serverLog>>

\* The user interface asks for streams, topics or messages, or sends one.
UserKinds == {"LoadStreamsTask", "LoadTopicsTask", "LoadMessagesTask",
              "SendMessageTask"}

SubmitUpTo(kind, a, max) ==
    /\ ~mainBlocked
    /\ Len(tasks) < max
    /\ AddTask(Task(kind, a,
                     IF kind = "LoadMessagesTask"
                     THEN Request(SearchNarrow(0, "", <<>>), DefaultAnchor)
                     ELSE "none"))
    /\ UNCHANGED <<accounts, worker, startQ, cur, startLog, idleQ, delivered,
                   quits, quitAt, quitStarted, acctVars, feedVars, cacheVars,
                   serverLog>>

Submit(kind, a) == SubmitUpTo(kind, a, MaxTasks)

\* EventBus.send_message
send_message(a) == SubmitUpTo("SendMessageTask", a, MaxSends)

\* ------------------------------------------------- accounts and settings
\* The dialog is not open, or Save was pressed and set_account is being
\* called, or it raised (the error bar is shown), or it returned.
NoDialog == [state |-> "idle", applies |-> 0, obj |-> "none", index |-> -1,
             server |-> "", email |-> <<>>, apikey |-> FALSE, password |-> "",
             error |-> ""]

\* Mutant of SaveAccountData: the keys of the map are written.
SaveAccountDataByKey(d, accts) ==
    [i \in 1..Len(d) |-> [server |-> d[i].key, email |-> accts[d[i].obj].email,
                          apikey |-> accts[d[i].obj].apikey]]

\* EventBus._save_account_data: one (server, email, apikey or '') tuple for
\* each value of the map, read from the account objects.
SaveAccountData(d, accts) ==
    [i \in 1..Len(d) |-> [server |-> accts[d[i].obj].server,
                          email |-> accts[d[i].obj].email,
                          apikey |-> accts[d[i].obj].apikey]]

\* '@' in account.email
HasAt(email) == \E i \in 1..Len(email) : email[i] = "@"

\* Mutants of Validate: the duplicate check is left out; the email check is.
ValidateNoDuplicateCheck(d, index, server, email, password) ==
    IF server = "" THEN "Invalid server."
    ELSE IF ~HasAt(email) THEN "Invalid email."
    ELSE IF password = "" THEN "Invalid password."
    ELSE ""

\* The checks of EventBus.set_account: the message of the ValidationError
\* raised, "" when none is.
Validate(d, index, server, email, password) ==
    IF server = "" THEN "Invalid server."
    ELSE IF ~HasAt(email) THEN "Invalid email."
    ELSE IF password = "" THEN "Invalid password."
    ELSE IF DictHas(d, server) /\ index = -1
    THEN "An account for this server already exists."
    ELSE ""

\* AccountDialog.get_account, after Save: a new AccountModel with index -1
\* and no API key for 'Add Account'; for 'Edit Account' the email and the
\* server are written into the account being edited.
AccountDialogGetAccount ==
    /\ ~mainBlocked
    /\ dialog.state # "called"
    /\ dialog.applies < MaxApplies
    /\ \E obj \in (DOMAIN accounts) \cup {"new"}, server \in Servers,
          email \in Emails, password \in Passwords :
       IF obj = "new"
       THEN /\ (NewAccts \ DOMAIN accounts) # {}
            /\ dialog' = [state |-> "called", applies |-> dialog.applies + 1,
                          obj |-> obj, index |-> -1,
                          server |-> server, email |-> email, apikey |-> FALSE,
                          password |-> password, error |-> ""]
            /\ UNCHANGED accounts
       ELSE /\ accounts' = [accounts EXCEPT ![obj].email = email,
                                            ![obj].server = server]
            /\ dialog' = [state |-> "called", applies |-> dialog.applies + 1,
                          obj |-> obj, index |-> accounts[obj].index,
                          server |-> server, email |-> email,
                          apikey |-> accounts[obj].apikey,
                          password |-> password, error |-> ""]
    /\ UNCHANGED <<threadVars, worker, startQ, cur, startLog, idleQ, delivered,
                   quits, quitAt, quitStarted, cacheVars, serverLog, registry,
                   settings,
                   keyring, feedVars>>

\* EventBus.set_account with the dialog's account and password, and the
\* except clause of AccountDialog.get_account_info.
SetAccount ==
    /\ dialog.state = "called"
    /\ LET error == Validate(registry, dialog.index, dialog.server,
                             dialog.email, dialog.password)
           obj == IF dialog.obj = "new"
                  THEN CHOOSE o \in NewAccts : o \notin DOMAIN accounts
                  ELSE dialog.obj
           index == IF dialog.index = -1 THEN Len(registry) ELSE dialog.index
           account == IF dialog.obj = "new"
                      THEN AccountModel(index, dialog.server, dialog.email,
                                        dialog.apikey)
                      ELSE [accounts[obj] EXCEPT !.index = index]
           accts == [o \in (DOMAIN accounts) \cup {obj} |->
                        IF o = obj THEN account ELSE accounts[o]]
           d == DictSet(registry, dialog.server, obj)
       IN
       IF error # ""
       THEN /\ dialog' = [dialog EXCEPT !.state = "raised", !.error = error]
            /\ UNCHANGED <<accounts, registry, settings, keyring, threadVars>>
       ELSE /\ dialog' = [dialog EXCEPT !.state = "saved", !.obj = obj]
            /\ accounts' = accts
            /\ registry' = d
            /\ settings' = SaveAccountData(d, accts)
            /\ keyring' = keyring \cup {<<dialog.server, dialog.email>>}
            /\ AddTask(Task(LoadAccountKind(account), obj, "none"))
    /\ UNCHANGED <<worker, startQ, cur, startLog, idleQ, delivered, quits,
                   quitAt, quitStarted, cacheVars, serverLog, feedVars>>


\* ------------------------------------------------------- MessagesView
\* TopicView.__init__: messages, and the MessagesFromSenderView children in
\* order, each with its messages (bottom is the last of them, or the label).
TopicView(name) == [name |-> name, messages |-> <<>>, runs |-> <<>>]

\* Mutant of SameSender: every message joins the bottom run.
SameSenderAlways(run, message) == TRUE

\* previous_sender_id == message.sender_id, with the sender of the bottom
\* run's first message.
SameSender(run, message) == run[1].sender = message.sender

\* TopicView.add_message
TopicViewAddMessage(tv, message) ==
    IF tv.runs # <<>> /\ SameSender(Last(tv.runs), message)
    THEN [tv EXCEPT !.messages = Append(@, message),
                    !.runs[Len(tv.runs)] = Append(@, message)]
    ELSE [tv EXCEPT !.messages = Append(@, message),
                    !.runs = Append(@, <<message>>)]

RECURSIVE AddMessages(_, _)
AddMessages(tv, messages) ==
    IF messages = <<>> THEN tv
    ELSE AddMessages(TopicViewAddMessage(tv, Head(messages)), Tail(messages))

\* The loop over messages.messages in on_messages_loaded: groups holds the
\* TopicViews created so far, the last of them being topic_view.
RECURSIVE GroupBatch(_, _)
GroupBatch(messages, groups) ==
    IF messages = <<>> THEN groups
    ELSE LET message == Head(messages) IN
         IF groups = <<>> \/ Last(groups).name # message.topic
         THEN GroupBatch(Tail(messages),
                  Append(groups,
                         TopicViewAddMessage(TopicView(message.topic), message)))
         ELSE GroupBatch(Tail(messages),
                  [groups EXCEPT ![Len(groups)] = TopicViewAddMessage(@, message)])

\* Mutant of Backlog: every message of the old head group.
BacklogAll(top) == top.messages

\* message_backlog = top.messages[1:]
Backlog(top) == Tail(top.messages)

\* get_allocation().y of the k-th topic group once the list is laid out:
\* the rows above it, one for a group's label and one for each message.
Position(tvs, k) ==
    (k - 1) + Len(FlattenSeq([j \in 1..(k - 1) |-> tvs[j].messages]))

\* adjustment.get_upper(): the height of the list.
Upper(tvs) == Position(tvs, Len(tvs) + 1)

\* Mutant of OriginalFirst: taken before the head group is popped.
OriginalFirstBeforePop(tvs, rest) == tvs # <<>>

\* original_first = self.topic_views[0] if self.topic_views else None, read
\* after the pop: whether there is one.
OriginalFirst(tvs, rest) == rest # <<>>

\* Mutant of NarrowChanged: only a view without a listbox starts afresh.
NarrowChangedNever(view, narrow) == ~view.listbox

\* if narrow != self.narrow or self.listbox is None
NarrowChanged(view, narrow) == narrow # view.narrow \/ ~view.listbox

\* Mutant of SameTopicAsHead: the head group is never merged into.
SameTopicAsHeadNever(tvs, messages) == FALSE

\* self.topic_views[0].name == messages.messages[-1].topic_name
SameTopicAsHead(tvs, messages) == tvs[1].name = Last(messages).topic

\* MessagesView.on_messages_loaded for the view's account: the view after
\* it. topic_views[0] of an empty list and messages[-1] of an empty batch
\* raise IndexError after the first assignments. A size-allocate handler
\* is kept as the place of original_first in topic_views and its position
\* in the layout before the handler ran; the handlers of a listbox that
\* was removed never run.
OnMessagesLoaded(view, narrow, batch) ==
    LET reset == NarrowChanged(view, narrow)
        tvs == IF reset THEN <<>> ELSE view.topic_views
        v == [view EXCEPT !.listbox = TRUE, !.topic_views = tvs,
                          !.narrow = narrow,
                          !.last_messages = batch.messages,
                          !.found_oldest = batch.found_oldest,
                          !.requested_more_messages = FALSE,
                          !.allocate = IF reset THEN <<>> ELSE @]
    IN
    IF batch.found_newest
    THEN [v EXCEPT !.topic_views = tvs \o GroupBatch(batch.messages, <<>>)]
    ELSE IF tvs = <<>> \/ batch.messages = <<>>
    THEN [v EXCEPT !.raised = TRUE]
    ELSE LET merge == SameTopicAsHead(tvs, batch.messages)
             rest == IF merge THEN Tail(tvs) ELSE tvs
             message_backlog == IF merge THEN Backlog(tvs[1]) ELSE <<>>
             groups == GroupBatch(batch.messages, <<>>)
         IN [v EXCEPT !.topic_views =
                [groups EXCEPT ![Len(groups)] = AddMessages(@, message_backlog)]
                \o rest,
                      !.allocate =
                IF OriginalFirst(tvs, rest)
                THEN Append(@, [first |-> Len(groups) + 1,
                                position |->
                                    Position(tvs, Len(tvs) - Len(rest) + 1)])
                ELSE @]

\* adjustment.get_page_size() is PageHeight, and the value stays inside
\* the list: 0 .. upper - page_size.
Clamp(value, tvs) ==
    IF value < 0 \/ Upper(tvs) <= PageHeight THEN 0
    ELSE IF value > Upper(tvs) - PageHeight THEN Upper(tvs) - PageHeight
    ELSE value

\* Mutant of ScrolledAway: scrolling down does not clear the flag.
ScrolledAwayNever(value, view) == FALSE

\* elif value > page_size and self.requested_more_messages
ScrolledAway(value, view) ==
    value > PageHeight /\ view.requested_more_messages

\* MessagesView.on_adjustment_value_changed with the value in view.value:
\* the view after it and the load_messages calls it makes. While
\* brace_for_scrollbar_reset is set a value of 0 is answered with
\* set_value(previous_adjustment_value), whose own value-changed finds the
\* value equal to the previous one. last_messages is None before the first
\* messages-loaded and messages[0] of an empty page raises.
OnAdjustmentValueChanged(view) ==
    LET value == view.value
        moved == [view EXCEPT !.previous_adjustment_value = value]
    IN
    IF view.brace_for_scrollbar_reset
    THEN IF value = 0
         THEN [view |-> [view EXCEPT !.value = view.previous_adjustment_value],
               load |-> <<>>]
         ELSE [view |-> [moved EXCEPT !.brace_for_scrollbar_reset =
                                          (value = view.previous_adjustment_value)],
               load |-> <<>>]
    ELSE IF PageHeight # 0 /\ value < PageHeight /\ ~view.listbox
    THEN [view |-> [view EXCEPT !.raised = TRUE], load |-> <<>>]
    ELSE IF /\ PageHeight # 0 /\ value < PageHeight
            /\ ~view.found_oldest /\ ~view.requested_more_messages
    THEN IF view.last_messages = <<>>
         THEN [view |-> [view EXCEPT !.raised = TRUE], load |-> <<>>]
         ELSE [view |-> [moved EXCEPT !.requested_more_messages = TRUE],
               load |-> <<Request(view.narrow, view.last_messages[1].id)>>]
    ELSE IF ScrolledAway(value, view)
    THEN [view |-> [moved EXCEPT !.requested_more_messages = FALSE],
          load |-> <<>>]
    ELSE [view |-> moved, load |-> <<>>]

\* adjustment.set_value(value): value-changed is emitted, and its handler
\* runs, when the clamped value differs from the present one.
SetValue(view, value) ==
    IF Clamp(value, view.topic_views) = view.value
    THEN [view |-> view, load |-> <<>>]
    ELSE OnAdjustmentValueChanged(
             [view EXCEPT !.value = Clamp(value, view.topic_views)])

\* EventBus.load_messages(account, narrow=narrow): the window, the streams
\* list or the search field asks for the newest page of a narrow.
load_messagesUpTo(a, narrow, max) ==
    /\ ~mainBlocked
    /\ messagesView.allocate = <<>>
    /\ Cardinality(MessagesTasks(TRUE)) < max
    /\ AddTask(Task("LoadMessagesTask", a, Request(narrow, DefaultAnchor)))
    /\ UNCHANGED <<accounts, worker, startQ, cur, startLog, idleQ, delivered,
                   quits, quitAt, quitStarted, acctVars, feedVars, cacheVars,
                   serverLog>>

load_messages(a, narrow) == load_messagesUpTo(a, narrow, MaxLoads)

\* self.bus.load_messages(self.account, anchor=..., narrow=...) for the
\* calls a handler of the view made (one at most).
LoadMessages(load) ==
    IF load = <<>> THEN UNCHANGED threadVars
    ELSE AddTask(Task("LoadMessagesTask", messagesView.account, load[1]))

\* The value of the adjustment changes: the user scrolls, or
\* on_adjustment_changed keeps the view at the bottom.
AdjustmentValueChanged(value) ==
    /\ ~mainBlocked
    /\ messagesView.allocate = <<>>
    /\ value = Clamp(value, messagesView.topic_views)
    /\ value # messagesView.value
    /\ Cardinality(MessagesTasks(FALSE)) < MaxBackfills
    /\ LET r == OnAdjustmentValueChanged([messagesView EXCEPT !.value = value])
       IN /\ messagesView' = r.view
          /\ LoadMessages(r.load)
    /\ UNCHANGED <<accounts, worker, startQ, cur, startLog, idleQ, delivered,
                   quits, quitAt, quitStarted, cacheVars, serverLog, acctVars,
                   serverMessages, headerBar>>

\* The listbox is allocated its size after rows were inserted above
\* original_first: MessagesView.on_listbox_size_allocate.
SizeAllocate ==
    /\ messagesView.allocate # <<>>
    /\ LET handler == Head(messagesView.allocate)
           new_position == Position(messagesView.topic_views, handler.first)
           amount_moved == new_position - handler.position
           r == SetValue(messagesView, messagesView.value + amount_moved)
       IN /\ messagesView' = [r.view EXCEPT
                                 !.allocate = Tail(@),
                                 !.requested_more_messages = FALSE,
                                 !.brace_for_scrollbar_reset = TRUE]
          /\ LoadMessages(r.load)
    /\ UNCHANGED <<accounts, worker, startQ, cur, startLog, idleQ, delivered,
                   quits, quitAt, quitStarted, cacheVars, serverLog, acctVars,
                   serverMessages, headerBar>>

\* The first messages-loaded of a view: the newest messages of its narrow.
MessagesLoadedInitial ==
    /\ ~messagesView.listbox
    /\ messagesView.allocate = <<>>
    /\ messagesView' = OnMessagesLoaded(messagesView,
                                        SearchNarrow(0, "", <<>>),
                                        InitialPage(serverMessages))
    /\ UNCHANGED <<accounts, threadVars, worker, startQ, cur, startLog, idleQ,
                   delivered, quits, quitAt, quitStarted, cacheVars, serverLog,
                   acctVars, serverMessages, headerBar>>

\* messages-loaded for the page that on_adjustment_value_changed asked for:
\* anchored at the oldest message of the last page, unless found_oldest.
MessagesLoadedOlder ==
    /\ messagesView.listbox
    /\ messagesView.allocate = <<>>
    /\ ~messagesView.raised
    /\ messagesView.last_messages # <<>>
    /\ ~messagesView.found_oldest
    /\ messagesView' = OnMessagesLoaded(messagesView, messagesView.narrow,
                           OlderPage(Matching(serverMessages,
                                              messagesView.narrow),
                                     messagesView.last_messages[1].id))
    /\ UNCHANGED <<accounts, threadVars, worker, startQ, cur, startLog, idleQ,
                   delivered, quits, quitAt, quitStarted, cacheVars, serverLog,
                   acctVars, serverMessages, headerBar>>

\* MessagesView.on_message_events past the checks of the account and of the
\* narrow: the loop over the events. topic_views[-1] of an empty list
\* raises IndexError and ends the handler.
RECURSIVE AppendLive(_, _)
AppendLive(view, events) ==
    IF events = <<>> THEN view
    ELSE LET message == Head(events)
             skip == \/ /\ view.narrow.stream # 0
                        /\ message.stream # view.narrow.stream
                     \/ /\ view.narrow.topic # ""
                        /\ message.topic # view.narrow.topic
         IN
         IF skip THEN AppendLive(view, Tail(events))
         ELSE IF view.topic_views = <<>> THEN [view EXCEPT !.raised = TRUE]
         ELSE AppendLive(
                  [view EXCEPT !.topic_views[Len(view.topic_views)] =
                                   TopicViewAddMessage(@, message)],
                  Tail(events))

\* Mutant of OnMessageEvents: a view that shows a search takes live
\* messages too.
OnMessageEventsWithQuery(view, account, events) ==
    IF account # view.account THEN view
    ELSE IF view.narrow = NoNarrow THEN view
    ELSE AppendLive(view, events)

\* MessagesView.on_message_events: the view after it.
OnMessageEvents(view, account, events) ==
    IF account # view.account THEN view
    ELSE IF view.narrow = NoNarrow THEN view
    ELSE IF view.narrow.query # <<>> THEN view
    ELSE AppendLive(view, events)

\* The main loop runs the oldest idle callback: the signal is emitted and
\* its listeners run in the order they connected, the bus's own first
\* (on_api_key_retrieved, on_account_loaded, on_data_loaded), then the
\* AvatarViews and the MessagesView. The list's size allocation, when
\* one is due, comes before the next idle callback.
MainIdle ==
    /\ ~mainBlocked
    /\ dialog.state # "called"
    /\ messagesView.allocate = <<>>
    /\ idleQ # <<>>
    /\ LET em == Head(idleQ)
           hit == {i \in 1..Len(views) :
                     views[i].connected /\ AvatarViewMatches(views[i], em.arg)}
       IN
       /\ idleQ' = Tail(idleQ)
       /\ delivered' = Append(delivered, Dispatched(em))
       /\ IF em.signal = "api-key-retrieved"
          THEN /\ settings' = SaveAccountData(registry, accounts)
               /\ AddTask(Task(LoadAccountKind(accounts[em.acct]), em.acct,
                               "none"))
          ELSE IF em.signal = "account-loaded"
          THEN /\ AddTask(Task("MonitorAccountEventsTask", em.acct, "none"))
               /\ UNCHANGED settings
          ELSE UNCHANGED <<threadVars, settings>>
       /\ IF em.signal = "data-loaded"
          THEN /\ cache' = IF cache[em.arg] = "loading"
                           THEN [cache EXCEPT ![em.arg] = em.data[1]]
                           ELSE cache
               /\ views' = [i \in 1..Len(views) |->
                              IF i \in hit
                              THEN [views[i] EXCEPT !.connected = FALSE,
                                                    !.image = em.data[1]]
                              ELSE views[i]]
               /\ avatarCache' = IF hit # {}
                                 THEN [avatarCache EXCEPT ![em.arg] = em.data[1]]
                                 ELSE avatarCache
          ELSE UNCHANGED <<cache, views, avatarCache>>
       /\ messagesView' =
             IF em.signal = "messages-loaded"
             THEN IF em.acct # messagesView.account THEN messagesView
                  ELSE OnMessagesLoaded(messagesView, em.arg.narrow, em.data[1])
             ELSE IF em.signal = "message-events"
             THEN OnMessageEvents(messagesView, em.acct,
                      [k \in 1..Len(em.data) |->
                          serverLog[em.acct][em.data[k] + 1].message])
             ELSE messagesView
    /\ UNCHANGED <<accounts, worker, startQ, cur, startLog, quits, quitAt,
                   quitStarted,
                   mainBlocked, requests, serverLog, registry, keyring, dialog,
                   serverMessages, headerBar>>

\* The narrows that the user of the modelled view selects: everything, a
\* stream, a topic of a stream, a search.
ViewNarrows ==
    {SearchNarrow(0, "", <<>>), SearchNarrow(1, "", <<>>),
     SearchNarrow(2, "t1", <<>>),
     SearchNarrow(0, "", <<[key |-> "search", obj |-> <<"x">>]>>)}

\* ------------------------------------------------------------ HeaderBar
\* The characters a search text is made of: a word counts as one.
Atoms == {"stream", "search", "x", ":", " "}

Texts == UNION {[1..n -> Atoms] : n \in 0..MaxText}

\* text.split() with term the characters of the term being read: the runs
\* of characters other than blanks.
RECURSIVE Split(_, _)
Split(text, term) ==
    IF text = <<>> THEN (IF term = <<>> THEN <<>> ELSE <<term>>)
    ELSE IF Head(text) = " "
    THEN (IF term = <<>> THEN <<>> ELSE <<term>>) \o Split(Tail(text), <<>>)
    ELSE Split(Tail(text), Append(term, Head(text)))

\* ':' in term
HasColon(term) == \E i \in 1..Len(term) : term[i] = ":"

\* term.split(':', 1): the place of the first colon.
Colon(term) ==
    CHOOSE i \in 1..Len(term) :
       term[i] = ":" /\ \A j \in 1..(i - 1) : term[j] # ":"

\* Mutant of IsOperator: 'search' is an operator too.
IsOperatorWithSearch(operator) ==
    /\ Len(operator) = 1
    /\ operator[1] \in {"has", "in", "is", "stream", "topic", "sender", "near",
                         "id", "search"}

\* operator in operators
IsOperator(operator) ==
    /\ Len(operator) = 1
    /\ operator[1] \in {"has", "in", "is", "stream", "topic", "sender", "near",
                         "id"}

\* The loop over the terms in update_search: query and search so far.
RECURSIVE ParseTerms(_, _, _)
ParseTerms(terms, query, search) ==
    IF terms = <<>> THEN [query |-> query, search |-> search]
    ELSE LET term == Head(terms) IN
         IF HasColon(term) /\ IsOperator(SubSeq(term, 1, Colon(term) - 1))
         THEN ParseTerms(Tail(terms),
                         DictSet(query, term[1],
                                 SubSeq(term, Colon(term) + 1, Len(term))),
                         search)
         ELSE ParseTerms(Tail(terms), query, Append(search, term))

\* ' '.join(search)
RECURSIVE Join(_)
Join(search) ==
    IF search = <<>> THEN <<>>
    ELSE IF Len(search) = 1 THEN search[1]
    ELSE search[1] \o <<" ">> \o Join(Tail(search))

\* The narrow that HeaderBar.update_search asks for: the stream's (or
\* everything) when the field is empty, else the stream with the query made
\* of the text.
UpdateSearchNarrow(hb) ==
    IF hb.text = <<>> THEN SearchNarrow(hb.stream, "", <<>>)
    ELSE LET parsed == ParseTerms(Split(hb.text, <<>>), <<>>, <<>>) IN
         SearchNarrow(hb.stream, "",
                      IF parsed.search # <<>>
                      THEN DictSet(parsed.query, "search", Join(parsed.search))
                      ELSE parsed.query)

\* HeaderBar.update_search for the account of the view.
update_search(hb) ==
    AddTask(Task("LoadMessagesTask", messagesView.account,
                 Request(UpdateSearchNarrow(hb), DefaultAnchor)))

\* search-changed with the text the field holds now.
SearchChanged(text) ==
    /\ ~mainBlocked
    /\ text # headerBar.text
    /\ headerBar' = [headerBar EXCEPT !.text = text]
    /\ update_search(headerBar')
    /\ UNCHANGED <<accounts, worker, startQ, cur, startLog, idleQ, delivered,
                   quits, quitAt, quitStarted, acctVars, messagesView,
                   serverMessages, cacheVars, serverLog>>

\* The user types a text into the empty search field.
SearchTyped ==
    /\ headerBar.text = <<>>
    /\ \E text \in Texts : SearchChanged(text)

\* HeaderBar.on_stream_selected (and, for no stream, on_account_selected):
\* the search is made again when the field holds a text.
HeaderBarStreamSelected(stream) ==
    /\ ~mainBlocked
    /\ stream # headerBar.stream
    /\ headerBar' = [headerBar EXCEPT !.stream = stream]
    /\ IF headerBar.text # <<>>
       THEN /\ Cardinality(MessagesTasks(TRUE)) < MaxSearches
            /\ update_search(headerBar')
       ELSE UNCHANGED threadVars
    /\ UNCHANGED <<accounts, worker, startQ, cur, startLog, idleQ, delivered,
                   quits, quitAt, quitStarted, acctVars, messagesView,
                   serverMessages, cacheVars, serverLog>>

\* The narrows that load_messages is called with when SearchNarrow.to_data
\* is looked at: with and without a stream, a topic, and query terms for
\* them.
NarrowInputs ==
    {SearchNarrow(stream, topic, query) :
        stream \in {0, 1}, topic \in {"", "t1"},
        query \in {<<>>,
                   <<[key |-> "stream", obj |-> <<"dev">>]>>,
                   <<[key |-> "topic", obj |-> <<"t2">>]>>,
                   <<[key |-> "topic", obj |-> <<"t2">>],
                     [key |-> "stream", obj |-> <<"dev">>]>>,
                   <<[key |-> "sender", obj |-> <<"x">>]>>}}

\* The messages of the account on the server when the view is created:
\* none of them in topic t1 of stream 2.
StoredMessages ==
    <<Message(1, 1, "t1", 1), Message(2, 1, "t1", 2), Message(3, 1, "t1", 2),
      Message(4, 1, "t1", 1), Message(5, 2, "t2", 1)>>

\* messages-loaded with the newest page of a narrow is dispatched to the
\* view: the first load of the view, another narrow, or the same again.
MessagesLoaded(account, narrow) ==
    /\ narrow # messagesView.narrow \/ Len(messagesView.topic_views) < MaxGroups
    /\ messagesView.allocate = <<>>
    /\ messagesView' =
          IF account # messagesView.account THEN messagesView
          ELSE OnMessagesLoaded(messagesView, narrow,
                   InitialPage(Matching(serverMessages, narrow)))
    /\ UNCHANGED <<accounts, threadVars, worker, startQ, cur, startLog, idleQ,
                   delivered, quits, quitAt, quitStarted, cacheVars, serverLog,
                   acctVars, serverMessages, headerBar>>

\* The messages of a batch of live events: new on the server, any stream,
\* topic and sender, ids counting on from the last.
LiveBatches(from) ==
    UNION {{[i \in 1..n |-> Message(from + i, f[i][1], f[i][2], f[i][3])] :
              f \in [1..n -> Streams \X Topics \X Senders]} : n \in 1..MaxBatch}

\* message-events is dispatched to the view: messages that arrived for the
\* view's account, or the events of another account.
MessageEvents(account) ==
    \E events \in LiveBatches(IF account = messagesView.account
                               THEN Len(serverMessages) ELSE 0) :
       /\ messagesView.allocate = <<>>
       /\ messagesView' = OnMessageEvents(messagesView, account, events)
       /\ IF account = messagesView.account
          THEN /\ Len(serverMessages) + Len(events) <= Len(StoredMessages) + MaxLive
               /\ serverMessages' = serverMessages \o events
          ELSE UNCHANGED serverMessages
       /\ UNCHANGED <<accounts, threadVars, worker, startQ, cur, startLog,
                      idleQ, delivered, quits, quitAt, quitStarted, cacheVars,
                      serverLog, acctVars, headerBar>>

\* --------------------------------------------------------- specifications
\* EventBus.__init__: the worker thread is started and _load_accounts
\* creates the saved accounts in order and queues a task for each.
SavedOrder == <<"a1">>

\* The server and the email of the saved accounts.
SavedServer == [a \in Accts |-> "s1"]
SavedEmail == <<"u", "@", "h">>

\* The position of account a in the saved list, counted from 0.
SavedIndex(saved, a) == (CHOOSE i \in 1..Len(saved) : saved[i] = a) - 1

\* The MessagesView before any messages-loaded.
NoMessagesView ==
    [account |-> "a1", listbox |-> FALSE, narrow |-> NoNarrow,
     topic_views |-> <<>>, requested_more_messages |-> FALSE,
     brace_for_scrollbar_reset |-> FALSE, value |-> 0,
     previous_adjustment_value |-> 0, allocate |-> <<>>,
     last_messages |-> <<>>, found_oldest |-> FALSE, raised |-> FALSE]

\* HeaderBar.__init__: no stream, and the search field empty (its text is
\* kept as its characters, a word counting as one).
NoHeaderBar == [stream |-> 0, text |-> <<>>]

InitWith(saved, keys) ==
    /\ accounts = [a \in {saved[i] : i \in 1..Len(saved)} |->
                      AccountModel(SavedIndex(saved, a), SavedServer[a],
                                   SavedEmail, keys[a])]
    /\ registry = [i \in 1..Len(saved) |->
                      [key |-> SavedServer[saved[i]], obj |-> saved[i]]]
    /\ settings = [i \in 1..Len(saved) |->
                      [server |-> SavedServer[saved[i]], email |-> SavedEmail,
                       apikey |-> keys[saved[i]]]]
    /\ keyring = {<<SavedServer[saved[i]], SavedEmail>> : i \in 1..Len(saved)}
    /\ dialog = NoDialog
    /\ messagesView = NoMessagesView
    /\ headerBar = NoHeaderBar
    /\ tasks = [i \in 1..Len(saved) |->
                   Task(LoadAccountKind([apikey |-> keys[saved[i]]]),
                        saved[i], "none")]
    /\ pc = [i \in 1..Len(saved) |-> "queued"]
    /\ mon = [i \in 1..Len(saved) |-> NoMon]
    /\ taskQueue = [i \in 1..Len(saved) |-> i]
    /\ pipe = [i \in 1..Len(saved) |-> 1]
    /\ worker = "running"
    /\ startQ = <<>>
    /\ cur = 0
    /\ startLog = <<>>
    /\ idleQ = <<>>
    /\ delivered = <<>>
    /\ quits = 0
    /\ quitAt = 0
    /\ quitStarted = 0
    /\ cache = [u \in Urls |-> "absent"]
    /\ mainBlocked = FALSE
    /\ requests = 0
    /\ avatarCache = [u \in Urls |-> "missing"]
    /\ views = <<>>
    /\ serverLog = [a \in Accts \cup NewAccts |-> <<>>]

Init ==
    /\ \E keys \in [Accts -> BOOLEAN] : InitWith(SavedOrder, keys)
    /\ serverMessages = <<>>

\* The worker, the one-shot tasks and shutdown.
Next ==
    \/ \E kind \in UserKinds, a \in Accts : Submit(kind, a)
    \/ Quit
    \/ WorkerRead
    \/ GreenletStart
    \/ MainIdle
    \/ \E t \in TaskIds : GetApiKeyTaskProcess(t)
    \/ \E t \in TaskIds : LoadAccountTaskProcess(t)
    \/ \E t \in TaskIds : LoadStreamsTaskProcess(t)
    \/ \E t \in TaskIds : LoadTopicsTaskProcess(t)
    \/ \E t \in TaskIds : LoadMessagesTaskProcess(t)
    \/ \E t \in TaskIds : SendMessageTaskProcess(t)
    \/ \E t \in TaskIds : MonitorReturn(t)
    \/ \E t \in TaskIds : MonitorEmit(t)
    \/ \E t \in TaskIds : MonitorAdvance(t)

Spec == Init /\ [][Next]_vars

\* Every kind of task with the events of the server, without shutdown.
NextBus ==
    \/ \E kind \in UserKinds, a \in Accts : SubmitUpTo(kind, a, MaxBusTasks)
    \/ \E a \in Accts : ServerMessage(a)
    \/ WorkerRead
    \/ GreenletStart
    \/ MainIdle
    \/ \E t \in TaskIds : GetApiKeyTaskProcess(t)
    \/ \E t \in TaskIds : LoadAccountTaskProcess(t)
    \/ \E t \in TaskIds : LoadStreamsTaskProcess(t)
    \/ \E t \in TaskIds : LoadTopicsTaskProcess(t)
    \/ \E t \in TaskIds : LoadMessagesTaskProcess(t)
    \/ \E t \in TaskIds : SendMessageTaskProcess(t)
    \/ \E t \in TaskIds : MonitorReturn(t)
    \/ \E t \in TaskIds : MonitorEmit(t)
    \/ \E t \in TaskIds : MonitorAdvance(t)

SpecBus == Init /\ [][NextBus]_vars

\* Accounts added and edited in the AccountDialog, and the login.
NextAccounts ==
    \/ AccountDialogGetAccount
    \/ SetAccount
    \/ WorkerRead
    \/ GreenletStart
    \/ MainIdle
    \/ \E t \in TaskIds : GetApiKeyTaskProcess(t)

SpecAccounts == Init /\ [][NextAccounts]_vars

\* Accounts added and edited in the dialog, the login, the load of the
\* account and its long-poll loop.
NextLogin ==
    \/ AccountDialogGetAccount
    \/ SetAccount
    \/ WorkerRead
    \/ GreenletStart
    \/ MainIdle
    \/ \E t \in TaskIds : GetApiKeyTaskProcess(t)
    \/ \E t \in TaskIds : LoadAccountTaskProcess(t)
    \/ \E a \in DOMAIN accounts : ServerMessage(a)
    \/ \E t \in TaskIds : MonitorReturn(t)
    \/ \E t \in TaskIds : MonitorEmit(t)
    \/ \E t \in TaskIds : MonitorAdvance(t)

\* No account is saved: the first start of the program.
InitLogin ==
    /\ InitWith(<<>>, [a \in Accts |-> FALSE])
    /\ serverMessages = <<>>

SpecLogin == InitLogin /\ [][NextLogin]_vars

\* The worker thread alone: submission order, start order and shutdown, with
\* messages sent by the user as the submitted work.
NextThread ==
    \/ \E a \in Accts : send_message(a)
    \/ Quit
    \/ WorkerRead
    \/ GreenletStart
    \/ MainIdle
    \/ \E t \in TaskIds : GetApiKeyTaskProcess(t)
    \/ \E t \in TaskIds : LoadAccountTaskProcess(t)
    \/ \E t \in TaskIds : SendMessageTaskProcess(t)
    \/ \E t \in TaskIds : MonitorReturn(t)
    \/ \E t \in TaskIds : MonitorEmit(t)
    \/ \E t \in TaskIds : MonitorAdvance(t)

SpecThread == Init /\ [][NextThread]_vars

\* The worker thread's scheduling: the hub runs every greenlet that is
\* ready, the run loop among them, and a greenlet that holds the thread
\* runs on to its next blocking call.
FairThread ==
    /\ SF_vars(WorkerRead)
    /\ WF_vars(GreenletStart)
    /\ \A t \in 1..(MaxSends + 2) :
          WF_vars(MonitorEmit(t)) /\ WF_vars(MonitorAdvance(t))

SpecThreadFair == SpecThread /\ FairThread

\* The URL cache: no saved account; avatars are requested for account a1.
InitCache ==
    /\ \E keys \in [Accts -> BOOLEAN] : InitWith(<<>>, keys)
    /\ serverMessages = <<>>

NextCache ==
    \/ \E u \in Urls : load_data_from_url("a1", u)
    \/ \E u \in Urls : AvatarViewInit("a1", u)
    \/ Quit
    \/ WorkerRead
    \/ GreenletStart
    \/ MainIdle
    \/ \E t \in TaskIds : LoadDataTaskProcess(t)

SpecCache == InitCache /\ [][NextCache]_vars

\* The long-poll loop of a saved account with an API key.
InitPoll ==
    /\ InitWith(SavedOrder, [a \in Accts |-> TRUE])
    /\ serverMessages = <<>>

NextPoll ==
    \/ \E a \in Accts : ServerEvent(a)
    \/ Quit
    \/ WorkerRead
    \/ GreenletStart
    \/ MainIdle
    \/ \E t \in TaskIds : LoadAccountTaskProcess(t)
    \/ \E t \in TaskIds : MonitorReturn(t)
    \/ \E t \in TaskIds : MonitorEmit(t)
    \/ \E t \in TaskIds : MonitorAdvance(t)

SpecPoll == InitPoll /\ [][NextPoll]_vars

\* The long-poll loop under the scheduling of gevent and the server: a
\* get_events call that can return does, and the greenlet that holds the
\* thread runs on to its next call.
FairPoll ==
    /\ SF_vars(WorkerRead)
    /\ WF_vars(GreenletStart)
    /\ WF_vars(MainIdle)
    /\ \A t \in 1..(Len(SavedOrder) + 1) :
          /\ WF_vars(LoadAccountTaskProcess(t))
          /\ WF_vars(MonitorReturn(t))
          /\ WF_vars(MonitorEmit(t))
          /\ WF_vars(MonitorAdvance(t))

SpecPollFair == SpecPoll /\ FairPoll


\* The feed of one narrow: the messages on the server, oldest first with
\* ids counting from 1, the first page and the older pages.
Histories ==
    UNION {[1..n -> Topics \X Senders] : n \in 0..MaxMessages}

InitFeed ==
    /\ InitWith(SavedOrder, [a \in Accts |-> TRUE])
    /\ \E h \in Histories :
          serverMessages = [i \in DOMAIN h |-> Message(i, 1, h[i][1], h[i][2])]

NextFeed ==
    \/ MessagesLoadedInitial
    \/ MessagesLoadedOlder
    \/ SizeAllocate

SpecFeed == InitFeed /\ [][NextFeed]_vars

\* The view of one account while narrows are selected and live messages
\* arrive: the server holds StoredMessages at the start.
InitLive ==
    /\ InitWith(SavedOrder, [a \in Accts |-> TRUE])
    /\ serverMessages = StoredMessages

NextLive ==
    \/ \E a \in Accts \cup NewAccts, narrow \in ViewNarrows :
          MessagesLoaded(a, narrow)
    \/ MessagesLoadedOlder
    \/ SizeAllocate
    \/ \E a \in Accts \cup NewAccts : MessageEvents(a)

SpecLive == InitLive /\ [][NextLive]_vars

\* The view of one account while its feed is loaded and scrolled: the
\* window asks for the newest page, the user moves the scrollbar, and the
\* pages come back through the worker and the main loop.
InitScroll ==
    /\ InitWith(SavedOrder, [a \in Accts |-> TRUE])
    /\ serverMessages = StoredMessages

NextScroll ==
    \/ \E a \in Accts, narrow \in ViewNarrows : load_messages(a, narrow)
    \/ \E t \in TaskIds : LoadAccountTaskProcess(t)
    \/ \E value \in 0..MaxScroll : AdjustmentValueChanged(value)
    \/ SizeAllocate
    \/ WorkerRead
    \/ GreenletStart
    \/ MainIdle
    \/ \E t \in TaskIds : LoadMessagesTaskProcess(t)

SpecScroll == InitScroll /\ [][NextScroll]_vars

\* Loads of the newest page of every kind of narrow, from the call to the
\* view.
NextNarrow ==
    \/ \E a \in Accts, narrow \in NarrowInputs : load_messages(a, narrow)
    \/ WorkerRead
    \/ GreenletStart
    \/ MainIdle
    \/ \E t \in TaskIds : LoadMessagesTaskProcess(t)

SpecNarrow == InitScroll /\ [][NextNarrow]_vars

\* Narrows selected one after the other while the loads are in flight.
NextSwitch ==
    \/ \E a \in Accts, narrow \in ViewNarrows :
          load_messagesUpTo(a, narrow, MaxSwitches)
    \/ WorkerRead
    \/ GreenletStart
    \/ MainIdle
    \/ \E t \in TaskIds : LoadMessagesTaskProcess(t)

SpecSwitch == InitScroll /\ [][NextSwitch]_vars

\* The search field: a stream is selected or not, a text is typed, the
\* stream is changed.
NextSearch ==
    \/ SearchTyped
    \/ \E stream \in {0} \cup Streams : HeaderBarStreamSelected(stream)

SpecSearch == InitScroll /\ [][NextSearch]_vars

\* ----------------------------------------------------------------- claims
Monitors == {t \in TaskIds : tasks[t].kind = "MonitorAccountEventsTask"}

OneShots == {t \in TaskIds : tasks[t].kind \in OneShotKinds}

\* The emissions of task t, queued or dispatched.
EmittedBy(t) == {i \in 1..Len(delivered \o idleQ) : (delivered \o idleQ)[i].task = t}

\* C1: every one-shot task that has run to its end has reported its outcome
\* as exactly one event on the bus, and none ended by an exception that
\* nothing caught.
C1_EveryOneShotReports ==
    \A t \in OneShots :
        pc[t] \in {"done", "faulted"} =>
            pc[t] = "done" /\ Cardinality(EmittedBy(t)) = 1

\* The LoadDataTasks created for url u, and those not at their end yet.
FetchesOf(u) ==
    {t \in TaskIds : tasks[t].kind = "LoadDataTask" /\ tasks[t].arg = u}

Outstanding(u) == {t \in FetchesOf(u) : pc[t] \notin Ended}

\* C2: no url ever has two fetches outstanding, and a step taken while the
\* url's cache entry is the pending marker creates no LoadDataTask for it.
C2_OneOutstandingFetch ==
    /\ [](\A u \in Urls : Cardinality(Outstanding(u)) <= 1)
    /\ [][\A u \in Urls :
            cache[u] = "loading" =>
                Cardinality({t \in 1..Len(tasks') :
                                tasks'[t].kind = "LoadDataTask" /\ tasks'[t].arg = u})
                    = Cardinality(FetchesOf(u))]_vars

\* A second request found the url pending and one fetch exists.
C2_Witness ==
    \E u \in Urls :
        /\ cache[u] = "loading"
        /\ requests >= 2
        /\ Len(tasks) = 1
        /\ Cardinality(FetchesOf(u)) = 1

\* The data-loaded emissions for url u that the listeners have received.
DataDelivered(u) ==
    {i \in 1..Len(delivered) :
        delivered[i].signal = "data-loaded" /\ delivered[i].arg = u}

\* C3: for every AvatarView that asked for its url while the bus had no
\* bytes for it, exactly one fetch of the url was issued; the view shows
\* nothing before the fetch's data-loaded is dispatched and shows that
\* emission's bytes from then on, so all such views show the same bytes.
C3_OneFetchServesAll ==
    \A i \in 1..Len(views) :
        LET v == views[i] IN
        v.asked \in {"absent", "loading"} =>
            /\ Cardinality(FetchesOf(v.url)) = 1
            /\ DataDelivered(v.url) = {} => v.image = "noimage"
            /\ \A k \in DataDelivered(v.url) : v.image = delivered[k].data[1]

\* Two views asked for one url before its bytes came and both show them.
C3_Witness ==
    \E i, j \in 1..Len(views) :
        /\ i < j
        /\ views[i].url = views[j].url
        /\ views[i].asked = "absent"
        /\ views[j].asked = "loading"
        /\ DataDelivered(views[i].url) # {}
        /\ views[i].image \in Bytes
        /\ views[j].image = views[i].image

\* C4: add_task always leaves the task in the queue (the caller is neither
\* blocked nor refused), and process() calls start in submission order: the
\* start log is increasing and a started task has every earlier one before it.
C4_FifoStart ==
    /\ \A t \in TaskIds :
          pc[t] = "queued" => \E i \in 1..Len(taskQueue) : taskQueue[i] = t
    /\ \A i, j \in 1..Len(startLog) : i < j => startLog[i] < startLog[j]
    /\ \A i \in 1..Len(startLog) :
          \A t \in 1..startLog[i] : \E k \in 1..i : startLog[k] = t

\* Four tasks have started, two of them submitted by the user.
C4_Witness == Len(startLog) >= 4 /\ quits = 0

\* C5 (safety part): once the run loop has read the quit byte the thread
\* ends with every greenlet at its end; no long-poll loop ever ends by an
\* uncaught exception; no task submitted after quit leaves the queue.
C5_Safe ==
    /\ worker # "running" =>
          /\ worker = "terminated"
          /\ \A t \in TaskIds : pc[t] \in Ended \cup {"queued"}
    /\ \A t \in Monitors : pc[t] # "faulted"
    /\ quits > 0 => \A t \in TaskIds : t > quitAt => pc[t] = "queued"

\* C5: after EventBus.quit every long-poll loop is ended by GreenletExit,
\* the worker thread terminates, and no task submitted later is started.
C5_QuitStopsEverything ==
    /\ []C5_Safe
    /\ (quits > 0) ~> (worker = "terminated")

\* A loop that had polled was killed, and a task submitted after quit waits.
C5_Witness ==
    /\ worker = "terminated"
    /\ \E t \in Monitors : pc[t] = "killed" /\ Len(mon[t].history) >= 1
    /\ \E t \in TaskIds : t > quitAt /\ pc[t] = "queued"

\* The ids of the events of type 'message' in a raw result.
RECURSIVE MessageIds(_)
MessageIds(raw) ==
    IF raw = <<>> THEN <<>>
    ELSE (IF Head(raw).type = "message" THEN <<Head(raw).id>> ELSE <<>>)
         \o MessageIds(Tail(raw))

\* Every event of the raw result can be built (a message event whose
\* message lacks a key, such as 'reactions', cannot).
AllWellFormed(raw) ==
    \A i \in 1..Len(raw) : raw[i].type = "message" => raw[i].valid

\* The loop waits in get_events and an earlier call has returned.
Repolling(t) == pc[t] = "wait" /\ mon[t].history # <<>>

\* C6: after a result of k >= 1 events the next request carries
\* the id of the k-th event.
C6_NextPollUsesLastId ==
    \A t \in Monitors :
        Repolling(t) /\ Len(Last(mon[t].history).raw) >= 1 =>
            mon[t].req = Last(Last(mon[t].history).raw).id

\* The step that writes account.queue.last_event_id.
AdvanceStep(t) ==
    /\ pc[t] = "emitted"
    /\ pc'[t] = "wait"
    /\ accounts'[tasks[t].acct].last_event_id
          # accounts[tasks[t].acct].last_event_id

NotificationsOf(t, q) ==
    SelectSeq(q, LAMBDA e : e.task = t /\ e.signal = "message-events")

\* C7 as stated: when the cursor is advanced, no notification of the loop
\* is waiting to be dispatched to the listeners.
C7_AdvanceAfterDelivery ==
    [][\A t \in Monitors : AdvanceStep(t) => NotificationsOf(t, idleQ) = <<>>]_vars

\* C7 amended: when the cursor is advanced past a result with message
\* events, the notification with those events has been queued on the main
\* loop (it may not have been dispatched).
C7_AdvanceAfterQueued ==
    [][\A t \in Monitors :
          AdvanceStep(t) =>
              LET ids == MessageIds(Last(mon[t].history).raw)
                  sent == NotificationsOf(t, delivered \o idleQ)
              IN ids # <<>> => sent # <<>> /\ Last(sent).data = ids]_vars

\* The cursor has moved past a result whose notification is not dispatched.
C7_Witness ==
    \E t \in Monitors :
        /\ Repolling(t)
        /\ Last(mon[t].history).outcome = "ok"
        /\ MessageIds(Last(mon[t].history).raw) # <<>>
        /\ NotificationsOf(t, idleQ) # <<>>
        /\ accounts[tasks[t].acct].last_event_id = Last(Last(mon[t].history).raw).id

RECURSIVE DataOf(_)
DataOf(es) == IF es = <<>> THEN <<>> ELSE <<Head(es).data>> \o DataOf(Tail(es))

\* The message-event ids of the results that could be parsed, result by
\* result, in the order the server returned them.
RECURSIVE ReturnedBatches(_)
ReturnedBatches(history) ==
    IF history = <<>> THEN <<>>
    ELSE (IF AllWellFormed(Head(history).raw)
          THEN <<MessageIds(Head(history).raw)>> ELSE <<>>)
         \o ReturnedBatches(Tail(history))

\* C8: the message events the listeners have received from a loop are, in
\* order, a prefix of the message events the server returned to that loop.
C8_DeliveredInServerOrder ==
    \A t \in Monitors :
        IsPrefix(FlattenSeq(DataOf(NotificationsOf(t, delivered))),
                 FlattenSeq(ReturnedBatches(mon[t].history)))

\* Two notifications of one loop were dispatched, the first with two events.
C8_Witness ==
    \E t \in Monitors :
        LET got == NotificationsOf(t, delivered) IN
        Len(got) >= 2 /\ Len(got[1].data) >= 2

\* This step ended the handling of a result with an exception.
RaisedNow(t) ==
    /\ mon'[t].history # mon[t].history
    /\ Last(mon'[t].history).outcome = "raised"

\* C9: a long-poll loop ends only when pool.kill() ends it, and a step in
\* which the call or the handling of its result raises leaves the loop
\* waiting in a new call with the same cursor.
C9_LoopRetries ==
    [][\A t \in Monitors :
          /\ pc[t] \in {"wait", "parsed", "emitted"} /\ pc'[t] \in Ended =>
                pc'[t] = "killed" /\ worker = "running" /\ worker' # "running"
          /\ RaisedNow(t) =>
                /\ pc'[t] = "wait"
                /\ mon'[t].req = mon[t].req
                /\ accounts'[tasks[t].acct].last_event_id
                      = accounts[tasks[t].acct].last_event_id]_vars

\* A loop whose first two results raised, one in the call and one in the
\* handling, waits in a third call.
C9_Witness ==
    \E t \in Monitors :
        /\ pc[t] = "wait"
        /\ Len(mon[t].history) >= 2
        /\ mon[t].history[1].outcome = "raised"
        /\ mon[t].history[2].outcome = "raised"
        /\ mon[t].history[1].raw # mon[t].history[2].raw

\* The results whose emit step is behind the loop.
Handled(t) ==
    IF pc[t] = "parsed"
    THEN SubSeq(mon[t].history, 1, Len(mon[t].history) - 1)
    ELSE mon[t].history

NonEmpty(s) == s # <<>>

RECURSIVE AllBatches(_)
AllBatches(history) ==
    IF history = <<>> THEN <<>>
    ELSE <<MessageIds(Head(history).raw)>> \o AllBatches(Tail(history))

\* C10: the notifications of a loop are, one for one and in
\* order, the message events of its results that hold a message event.
C10_OneNotificationPerResult ==
    \A t \in Monitors :
        DataOf(NotificationsOf(t, delivered \o idleQ))
            = SelectSeq(AllBatches(Handled(t)), NonEmpty)

\* A step of the worker thread: the run loop or a greenlet moves.
WorkerStep ==
    \/ worker' # worker
    \/ pipe # <<>> /\ pipe' = Tail(pipe)
    \/ \E t \in TaskIds : pc'[t] # pc[t]

\* C11: every listener that has run for a task's result ran on the main
\* thread, and no step of the worker thread runs a listener: the result is
\* first a callback of the main loop.
C11_ListenersOnMainThread ==
    /\ [](\A i \in 1..Len(delivered) : delivered[i].thread = "main")
    /\ [][WorkerStep => delivered' = delivered]_vars
    /\ [][\A t \in TaskIds :
            Cardinality({i \in 1..Len(delivered' \o idleQ') :
                            (delivered' \o idleQ')[i].task = t})
                > Cardinality(EmittedBy(t))
            => idleQ' # <<>> /\ Last(idleQ').task = t]_vars

\* The listeners have received a result of the login, of the account load,
\* of a request of the user interface and of the long poll.
C11_Witness ==
    /\ \E i \in 1..Len(delivered) : delivered[i].signal = "api-key-retrieved"
    /\ \E i \in 1..Len(delivered) : delivered[i].signal = "account-loaded"
    /\ \E i \in 1..Len(delivered) : delivered[i].signal = "message-events"
    /\ \E i \in 1..Len(delivered) :
          delivered[i].signal \in {"messages-loaded", "account-streams-loaded",
                                   "stream-topics-loaded", "message-narrow-failed"}

\* C12: no step of the worker thread writes a field of an account of the
\* bus's accounts map (apikey, info, queue, the queue's cursor) or the URL
\* cache; they change only in steps of the main thread.
C12_TasksDoNotMutate ==
    [][WorkerStep => accounts' = accounts /\ cache' = cache]_vars

\* The step in which set_account returns or raises.
SetAccountStep == dialog.state = "called" /\ dialog'.state # "called"

\* The account passed is new and its server is a key of the accounts map.
DuplicateServer == dialog.index = -1 /\ DictHas(registry, dialog.server)

InvalidInput ==
    \/ dialog.server = ""
    \/ ~HasAt(dialog.email)
    \/ dialog.password = ""
    \/ DuplicateServer

\* C13: set_account raises ValidationError for an empty server, an email
\* without "@", an empty password and a new account whose server is
\* registered, and then the accounts map, the accounts, the persisted
\* settings, the keyring and the task queue are as they were before the call.
C13_InvalidInputRejected ==
    [][SetAccountStep /\ InvalidInput =>
          /\ dialog'.state = "raised"
          /\ dialog'.error # ""
          /\ registry' = registry
          /\ accounts' = accounts
          /\ settings' = settings
          /\ keyring' = keyring
          /\ tasks' = tasks /\ taskQueue' = taskQueue /\ pipe' = pipe]_vars

\* A new account for the server of the saved account, otherwise valid, was
\* rejected.
C13_Witness ==
    /\ dialog.state = "raised"
    /\ dialog.obj = "new"
    /\ dialog.server = "s1" /\ HasAt(dialog.email) /\ dialog.password # ""
    /\ dialog.error = "An account for this server already exists."

\* The persisted entries for a server.
EntriesFor(saved, server) == {i \in 1..Len(saved) : saved[i].server = server}

\* C14: set_account with a server, an email with "@" and a password, for a
\* server that is no key of the accounts map, succeeds; afterwards
\* the persisted list has exactly one entry for the server, and every entry
\* it had for another account is still there.
C14_OneEntryPerNewServer ==
    [][SetAccountStep /\ ~InvalidInput /\ ~DictHas(registry, dialog.server) =>
          /\ dialog'.state = "saved"
          /\ Cardinality(EntriesFor(settings', dialog.server)) = 1
          /\ \A i \in 1..Len(registry) :
                registry[i].obj # dialog.obj =>
                    \E j \in 1..Len(settings') : settings'[j] = settings[i]]_vars

GetApiKeyTasks == {t \in TaskIds : tasks[t].kind = "GetApiKeyTask"}

\* The emissions of task t, queued or dispatched, as a sequence.
EmissionsOf(t) == SelectSeq(delivered \o idleQ, LAMBDA e : e.task = t)

\* The step that dispatches a login-failed emission to the listeners.
LoginFailedDispatch == 
    /\ idleQ # <<>>
    /\ Head(idleQ).signal = "login-failed"
    /\ delivered' # delivered

\* C15: a GetApiKeyTask emits nothing before its reply and exactly one event
\* with it, login-failed or api-key-retrieved, the latter only with the key
\* stored; a task that fails leaves the account as it was, and the dispatch
\* of login-failed persists nothing and enqueues no task.
C15_LoginFailureIsReported ==
    /\ [](\A t \in GetApiKeyTasks :
            /\ pc[t] # "faulted"
            /\ pc[t] \notin Ended => EmissionsOf(t) = <<>>
            /\ pc[t] = "done" =>
                  /\ Len(EmissionsOf(t)) = 1
                  /\ EmissionsOf(t)[1].signal \in {"login-failed",
                                                   "api-key-retrieved"})
    /\ [][\A t \in GetApiKeyTasks :
            pc[t] = "io1" /\ pc'[t] = "done" =>
                IF Last(idleQ').signal = "login-failed"
                THEN accounts' = accounts
                ELSE accounts'[tasks[t].acct].apikey]_vars
    /\ [][LoginFailedDispatch =>
            /\ settings' = settings
            /\ accounts' = accounts
            /\ tasks' = tasks /\ taskQueue' = taskQueue /\ pipe' = pipe]_vars

\* The login of an account added in the dialog failed and the listeners
\* were told; nothing waits to run for it.
C15_Witness ==
    \E t \in GetApiKeyTasks :
        /\ tasks[t].acct \in NewAccts
        /\ pc[t] = "done"
        /\ \E i \in 1..Len(delivered) :
              delivered[i].task = t /\ delivered[i].signal = "login-failed"
        /\ ~accounts[tasks[t].acct].apikey
        /\ taskQueue = <<>> /\ pipe = <<>> /\ idleQ = <<>>

LoadMessagesTasks == {t \in TaskIds : tasks[t].kind = "LoadMessagesTask"}

\* C16: a LoadMessagesTask whose request has come back has emitted exactly
\* one event, message-narrow-failed or messages-loaded, with the narrow and
\* the anchor it was submitted with.
C16_NarrowFailedOrLoaded ==
    \A t \in LoadMessagesTasks :
        pc[t] \in {"done", "faulted"} =>
            /\ Len(EmissionsOf(t)) = 1
            /\ EmissionsOf(t)[1].signal \in {"message-narrow-failed",
                                             "messages-loaded"}
            /\ EmissionsOf(t)[1].arg = tasks[t].arg

LoadAccountTasks == {t \in TaskIds : tasks[t].kind = "LoadAccountTask"}

\* C17: a LoadAccountTask that failed emitted no account-loaded and left the
\* account's info and queue as they were before it ran (never loaded).
C17_FailedLoadLeavesAccount ==
    \A t \in LoadAccountTasks :
        pc[t] = "faulted" =>
            /\ EmissionsOf(t) = <<>>
            /\ accounts[tasks[t].acct].info = 0
            /\ ~accounts[tasks[t].acct].queue

\* process() of task t had started when quit was called.
StartedBeforeQuit(t) ==
    quits > 0 /\ \E i \in 1..quitStarted : startLog[i] = t

\* C18: no one-shot task whose process() had started when quit was called
\* is ended by the worker's shutdown: it runs to its end or fails.
C18_InFlightNotAborted ==
    \A t \in OneShots : StartedBeforeQuit(t) => pc[t] # "killed"

\* The messages of the topic groups, the sender-runs of all groups, and the
\* feed read from top to bottom.
MessagesOf(tvs) == [k \in 1..Len(tvs) |-> tvs[k].messages]

RunsOf(tvs) == FlattenSeq([k \in 1..Len(tvs) |-> tvs[k].runs])

Flat(tvs) == FlattenSeq(MessagesOf(tvs))

\* The positions in the concatenation at which the parts begin.
RECURSIVE StartsOf(_, _)
StartsOf(parts, offset) ==
    IF parts = <<>> THEN {}
    ELSE {offset + 1} \cup StartsOf(Tail(parts), offset + Len(Head(parts)))

\* Groups and runs partition the feed, a group begins exactly where the
\* topic differs from the message before, and inside a group a run begins
\* exactly where the sender differs from the message before.
GroupedExactly(tvs) ==
    LET flat == Flat(tvs)
        groupStarts == StartsOf(MessagesOf(tvs), 0)
        runStarts == StartsOf(RunsOf(tvs), 0)
    IN
    /\ FlattenSeq(RunsOf(tvs)) = flat
    /\ \A k \in 1..Len(tvs) :
          /\ tvs[k].messages # <<>>
          /\ \A i \in 1..Len(tvs[k].messages) :
                tvs[k].messages[i].topic = tvs[k].name
          /\ FlattenSeq(tvs[k].runs) = tvs[k].messages
    /\ \A r \in 1..Len(RunsOf(tvs)) : RunsOf(tvs)[r] # <<>>
    /\ \A i \in 1..Len(flat) :
          /\ i \in groupStarts <=> (i = 1 \/ flat[i].topic # flat[i - 1].topic)
          /\ i \in runStarts <=>
                (i \in groupStarts \/ flat[i].sender # flat[i - 1].sender)

\* C19: the first batch of a view is shown whole and in order, in topic
\* groups that begin exactly where the topic changes and sender-runs that
\* begin exactly where the sender changes inside a group.
C19_GroupingOfFreshFeed ==
    [][~messagesView.listbox /\ messagesView'.listbox =>
          /\ Flat(messagesView'.topic_views) = InitialPage(serverMessages).messages
          /\ GroupedExactly(messagesView'.topic_views)]_vars

\* The batch t1/s1, t1/s1, t1/s2 in a fresh feed: one group t1 with a run
\* of the first two messages and a run of the third.
C19_Witness ==
    /\ messagesView.listbox
    /\ Flat(messagesView.topic_views) = messagesView.last_messages
    /\ Len(messagesView.topic_views) = 1
    /\ messagesView.topic_views[1].name = "t1"
    /\ Len(messagesView.topic_views[1].runs) = 2
    /\ Len(messagesView.topic_views[1].runs[1]) = 2
    /\ Len(messagesView.topic_views[1].runs[2]) = 1
    /\ messagesView.topic_views[1].runs[1][1].sender = 1
    /\ messagesView.topic_views[1].runs[2][1].sender = 2

\* Oldest first, no id twice.
Chronological(messages) ==
    \A i, j \in 1..Len(messages) : i < j => messages[i].id < messages[j].id

Ids(messages) == {messages[i].id : i \in 1..Len(messages)}

\* An older page is merged into a feed: the page's last message has the
\* topic of the oldest group.
BackfillMerge ==
    /\ messagesView.listbox
    /\ messagesView.topic_views # <<>>
    /\ messagesView'.topic_views # messagesView.topic_views
    /\ ~messagesView'.raised
    /\ messagesView'.last_messages # <<>>
    /\ Last(messagesView'.last_messages).topic = messagesView.topic_views[1].name

\* C20: when an older page whose last message has the topic of the oldest
\* group is merged into a feed that is chronological and grouped, the feed
\* stays chronological with no message twice, holds the messages it had and
\* those of the page, and has no two adjacent groups of one topic: the old
\* head group's messages are in the group of the page's last message.
C20_BackfillMerge ==
    [][BackfillMerge
       /\ Chronological(Flat(messagesView.topic_views))
       /\ GroupedExactly(messagesView.topic_views) =>
          /\ Chronological(Flat(messagesView'.topic_views))
          /\ Ids(Flat(messagesView'.topic_views))
                = Ids(Flat(messagesView.topic_views))
                  \cup Ids(messagesView'.last_messages)
          /\ GroupedExactly(messagesView'.topic_views)
          /\ \E k \in 1..Len(messagesView'.topic_views) :
                /\ Ids(messagesView.topic_views[1].messages)
                      \subseteq Ids(messagesView'.topic_views[k].messages)
                /\ Last(messagesView'.last_messages).id
                      \in Ids(messagesView'.topic_views[k].messages)
                /\ SubSeq(messagesView'.topic_views, k + 1,
                          Len(messagesView'.topic_views))
                      = Tail(messagesView.topic_views)]_vars

\* Every older page was merged, down to the oldest message: a group below
\* the top one holds four messages or more, so more than a page gave it.
C20_Witness ==
    /\ messagesView.listbox
    /\ messagesView.found_oldest
    /\ Len(Flat(messagesView.topic_views)) = MaxMessages
    /\ Len(messagesView.topic_views) >= 3
    /\ \E k \in 2..Len(messagesView.topic_views) :
          Len(messagesView.topic_views[k].messages) >= 4

\* The messages of the live events that the step hands to the view.
LiveEvents ==
    SubSeq(serverMessages', Len(serverMessages) + 1, Len(serverMessages'))

\* message-events of the view's account reaches a view that shows a narrow
\* without a query.
LiveStep ==
    /\ serverMessages' # serverMessages
    /\ messagesView.narrow # NoNarrow
    /\ messagesView.narrow.query = <<>>

\* C21: the live messages that pass the filter are added at the end of a
\* grouped feed so that it stays grouped: a message joins the last
\* sender-run of the last topic group only when its topic and its sender
\* are those of the tail, a differing sender starts a new run and a
\* differing topic starts a new topic group.
C21_LiveAppendKeepsGrouping ==
    [][LiveStep
       /\ messagesView.topic_views # <<>>
       /\ GroupedExactly(messagesView.topic_views) =>
          /\ Flat(messagesView'.topic_views)
                = Flat(messagesView.topic_views)
                  \o Matching(LiveEvents, messagesView.narrow)
          /\ GroupedExactly(messagesView'.topic_views)]_vars

\* C22: a batch of live events leaves the view as it is when the events
\* are another account's, when the view has no narrow yet, when its narrow
\* has a query (a search), and when no message of the batch has the
\* narrow's stream id and topic.
C22_FilteredEventsLeaveView ==
    \A account \in Accts \cup NewAccts :
       \A events \in LiveBatches(Len(serverMessages)) :
          (\/ account # messagesView.account
           \/ messagesView.narrow = NoNarrow
           \/ messagesView.narrow.query # <<>>
           \/ Matching(events, messagesView.narrow) = <<>>)
          => OnMessageEvents(messagesView, account, events) = messagesView

\* A view of stream 1 with its page on show after a message arrived in
\* stream 2.
C22_Witness ==
    /\ messagesView.narrow = SearchNarrow(1, "", <<>>)
    /\ messagesView.topic_views # <<>>
    /\ Flat(messagesView.topic_views) = messagesView.last_messages
    /\ Len(serverMessages) > Len(StoredMessages)
    /\ Last(serverMessages).stream = 2
    /\ Last(serverMessages).id \notin Ids(Flat(messagesView.topic_views))

\* The requests for an older page that were made and not answered yet: the
\* task has not failed and its messages-loaded has not been dispatched.
BackfillsInFlight ==
    {t \in MessagesTasks(FALSE) :
        /\ pc[t] \notin {"faulted", "killed"}
        /\ \A i \in 1..Len(delivered) : delivered[i].task # t}

\* C23: whatever the scrollbar does, at most one request for an older page
\* of the view is in flight at any time.
C23_OneBackfillInFlight == Cardinality(BackfillsInFlight) <= 1

\* A messages-loaded that the view handled (size allocations find a handler
\* connected, dispatches find none).
LoadedStep ==
    /\ messagesView.allocate = <<>>
    /\ serverMessages' = serverMessages
    /\ messagesView' # messagesView

\* The groups of before are in the view of after: a reload puts its groups
\* under them, an older page goes above them and takes the messages of the
\* old head group into its last group.
GroupsKept(old, new) ==
    \/ IsPrefix(old, new)
    \/ \E k \in 1..Len(new) :
          /\ SubSeq(new, k + 1, Len(new)) = Tail(old)
          /\ Ids(old[1].messages) \subseteq Ids(new[k].messages)

\* C24: a messages-loaded for a narrow other than the displayed one leaves
\* in the view the messages of its batch and nothing else; one for the
\* displayed narrow keeps the groups the view had.
C24_NarrowChangeDiscards ==
    [][LoadedStep =>
          IF messagesView'.narrow # messagesView.narrow
          THEN Flat(messagesView'.topic_views) = messagesView'.last_messages
          ELSE GroupsKept(messagesView.topic_views,
                          messagesView'.topic_views)]_vars

\* The view shows the page of stream 1 and nothing else, after it showed
\* all messages and took an older page of them (only that sets
\* brace_for_scrollbar_reset).
C24_Witness ==
    /\ messagesView.narrow = SearchNarrow(1, "", <<>>)
    /\ messagesView.brace_for_scrollbar_reset
    /\ messagesView.topic_views # <<>>
    /\ Flat(messagesView.topic_views) = messagesView.last_messages

NoOperatorTwice(data) ==
    \A i, j \in 1..Len(data) : i # j => data[i].operator # data[j].operator

HasOperator(data, operator) ==
    \E i \in 1..Len(data) : data[i].operator = operator

\* C25: for the narrow of every LoadMessagesTask, to_data is the items of
\* the query in order as operator/operand pairs, then the explicit stream,
\* there exactly when the narrow has a stream and the query no 'stream'
\* key, then the explicit topic, likewise; no operator is in it twice.
C25_ToData ==
    \A t \in MessagesTasks(TRUE) \cup MessagesTasks(FALSE) :
       LET narrow == tasks[t].arg.narrow
           data == to_data(narrow)
           n == Len(narrow.query)
           rest == SubSeq(data, n + 1, Len(data))
           stream == [operator |-> "stream",
                      operand |-> <<StreamNames[narrow.stream]>>]
           topic == [operator |-> "topic", operand |-> <<narrow.topic>>]
       IN
       /\ Len(data) >= n
       /\ \A i \in 1..n : /\ data[i].operator = narrow.query[i].key
                           /\ data[i].operand = narrow.query[i].obj
       /\ HasOperator(rest, "stream") <=>
             (narrow.stream # 0 /\ ~HasOperator(SubSeq(data, 1, n), "stream"))
       /\ HasOperator(rest, "topic") <=>
             (narrow.topic # "" /\ ~HasOperator(SubSeq(data, 1, n), "topic"))
       /\ \A i \in 1..Len(rest) :
             /\ rest[i].operator \in {"stream", "topic"}
             /\ rest[i].operator = "stream" => rest[i] = stream /\ i = 1
             /\ rest[i].operator = "topic" => rest[i] = topic
       /\ NoOperatorTwice(data)

\* A request went out for a narrow with a stream, a topic and a 'stream'
\* term in its query: the term is the only stream of the data, and the
\* explicit topic follows.
C25_Witness ==
    \E t \in MessagesTasks(TRUE) :
       /\ pc[t] = "done"
       /\ tasks[t].arg.narrow.stream = 1
       /\ tasks[t].arg.narrow.topic = "t1"
       /\ to_data(tasks[t].arg.narrow)
             = <<[operator |-> "stream", operand |-> <<"dev">>],
                 [operator |-> "topic", operand |-> <<"t1">>]>>

\* The terms of the text in the search field.
SearchTerms == Split(headerBar.text, <<>>)

\* The term is op:value for an op of the set.
OpTerm(term, ops) == Len(term) >= 2 /\ term[2] = ":" /\ term[1] \in ops

ValueOf(term) == SubSeq(term, 3, Len(term))

\* d[key]
DictGet(d, key) == d[CHOOSE i \in 1..Len(d) : d[i].key = key].obj

\* The terms that are no op:value for an op of the set.
BareTerms(terms, ops) == SelectSeq(terms, LAMBDA term : ~OpTerm(term, ops))

\* The value of the last term op:value of the text.
LastValue(terms, op) ==
    LET I == {i \in 1..Len(terms) : OpTerm(terms[i], {op})}
    IN ValueOf(terms[CHOOSE i \in I : \A j \in I : j <= i])

ClaimedOperators ==
    {"stream", "topic", "sender", "search", "has", "in", "is", "near", "id"}

ApiKeyRetrievedDispatch ==
    /\ idleQ # <<>>
    /\ Head(idleQ).signal = "api-key-retrieved"
    /\ delivered' # delivered

\* The list has one (server, email, apikey) tuple for each entry of the
\* accounts map, in the map's order, with the values of the entry's account.
TuplesOfMap(saved, d, accts) ==
    /\ Len(saved) = Len(d)
    /\ \A i \in 1..Len(d) :
          /\ DOMAIN saved[i] = {"server", "email", "apikey"}
          /\ saved[i].server = accts[d[i].obj].server
          /\ saved[i].email = accts[d[i].obj].email
          /\ saved[i].apikey = accts[d[i].obj].apikey

\* C27: after a set_account that returns and after the dispatch of
\* api-key-retrieved, the persisted 'accounts' setting is the list of the
\* (server, email, apikey or '') tuples of the accounts of the map; no
\* password is in it.
C27_SettingsAreTheAccounts ==
    [][(SetAccountStep /\ dialog'.state = "saved") \/ ApiKeyRetrievedDispatch =>
          /\ TuplesOfMap(settings', registry', accounts')
          /\ \A i \in 1..Len(settings') :
                /\ settings'[i].server \notin Passwords \ {""}
                /\ settings'[i].apikey \in BOOLEAN]_vars

\* The account added in the dialog is persisted with its API key, after
\* the dispatch of api-key-retrieved.
C27_Witness ==
    \E i \in 1..Len(settings) :
       /\ registry[i].obj \in NewAccts
       /\ settings[i].apikey
       /\ \E k \in 1..Len(delivered) :
             delivered[k].signal = "api-key-retrieved"
             /\ delivered[k].acct = registry[i].obj

\* C28: a set_account that returns has stored the credential and enqueued
\* one task, GetApiKeyTask for an account without API key and
\* LoadAccountTask otherwise; the dispatch of api-key-retrieved enqueues a
\* LoadAccountTask for the account; a MonitorAccountEventsTask is enqueued
\* only by the dispatch of account-loaded for its account, so the account of
\* a long-poll loop has a registered event queue.
C28_LoginThenLoadThenMonitor ==
    /\ [][SetAccountStep /\ dialog'.state = "saved" =>
             /\ <<dialog.server, dialog.email>> \in keyring'
             /\ Len(tasks') = Len(tasks) + 1
             /\ taskQueue' = Append(taskQueue, Len(tasks'))
             /\ Last(tasks').acct = dialog'.obj
             /\ Last(tasks').kind = IF accounts'[dialog'.obj].apikey
                                    THEN "LoadAccountTask"
                                    ELSE "GetApiKeyTask"]_vars
    /\ [][ApiKeyRetrievedDispatch =>
             /\ Len(tasks') = Len(tasks) + 1
             /\ taskQueue' = Append(taskQueue, Len(tasks'))
             /\ Last(tasks').acct = Head(idleQ).acct
             /\ Last(tasks').kind = "LoadAccountTask"]_vars
    /\ [][\A t \in (DOMAIN tasks') \ (DOMAIN tasks) :
             tasks'[t].kind = "MonitorAccountEventsTask" =>
                /\ idleQ # <<>>
                /\ delivered' # delivered
                /\ Head(idleQ).signal = "account-loaded"
                /\ Head(idleQ).acct = tasks'[t].acct]_vars
    /\ [](\A t \in Monitors : accounts[tasks[t].acct].queue)

\* The long-poll loop of the account added in the dialog is waiting for
\* events: the account has logged in and has been loaded.
C28_Witness ==
    \E t \in Monitors :
       /\ tasks[t].acct \in NewAccts
       /\ pc[t] = "wait"
       /\ accounts[tasks[t].acct].apikey
       /\ accounts[tasks[t].acct].queue

\* The step in which the view handles messages-loaded for an older page of
\* its narrow and rows are inserted above the rows it had.
BackfillInserts ==
    /\ idleQ # <<>>
    /\ delivered' # delivered
    /\ Head(idleQ).signal = "messages-loaded"
    /\ Head(idleQ).acct = messagesView.account
    /\ ~Head(idleQ).data[1].found_newest
    /\ messagesView.listbox
    /\ Head(idleQ).arg.narrow = messagesView.narrow
    /\ ~messagesView'.raised
    /\ Upper(messagesView'.topic_views) > Upper(messagesView.topic_views)

\* The step in which a size-allocate handler of the view runs.
SizeAllocateStep ==
    Len(messagesView'.allocate) < Len(messagesView.allocate)

\* C29: a backfill that inserts rows above the rows of the view, into the
\* only group too, leaves the scroll offset as it is and waits for the
\* list's next size allocation; at the allocation the offset is changed by
\* the number of rows the old content moved down, once.
C29_BackfillKeepsPlace ==
    /\ [][BackfillInserts =>
             /\ messagesView'.value = messagesView.value
             /\ Len(messagesView'.allocate) = 1
             /\ LET handler == messagesView'.allocate[1] IN
                Position(messagesView'.topic_views, handler.first)
                   - handler.position
                = Upper(messagesView'.topic_views)
                   - Upper(messagesView.topic_views)]_vars
    /\ [][SizeAllocateStep =>
             /\ messagesView'.allocate = <<>>
             /\ LET handler == messagesView.allocate[1] IN
                messagesView'.value =
                   messagesView.value
                   + Position(messagesView.topic_views, handler.first)
                   - handler.position]_vars

\* C30: the feed of a view is grouped, and grouping its messages, read
\* from top to bottom, again gives the topic groups and the sender-runs it
\* has.
C30_GroupingIdempotent ==
    messagesView.listbox =>
       GroupBatch(Flat(messagesView.topic_views), <<>>)
          = messagesView.topic_views

\* A feed of three groups or more, one of them with two sender-runs or
\* more, that older pages were merged into.
C30_Witness ==
    /\ messagesView.listbox
    /\ messagesView.found_oldest
    /\ Len(messagesView.topic_views) >= 3
    /\ \E k \in 1..Len(messagesView.topic_views) :
          Len(messagesView.topic_views[k].runs) >= 2
    /\ GroupBatch(Flat(messagesView.topic_views), <<>>)
          = messagesView.topic_views

\* The long-poll loops of the account that have started and not ended.
RunningMonitors(a) ==
    {t \in Monitors : tasks[t].acct = a /\ pc[t] \in {"wait", "parsed", "emitted"}}

\* C31: no account has two long-poll loops running at once.
C31_OneMonitorPerAccount ==
    \A a \in DOMAIN accounts : Cardinality(RunningMonitors(a)) <= 1

\* C32: load_data_from_url for a url whose bytes are in the cache issues no
\* fetch and returns: the main thread does not wait for _cache_lock in the
\* bus's own data-loaded handler.
C32_CachedUrlReturns ==
    [][\A u \in Urls :
          load_data_from_url("a1", u) /\ cache[u] \in Bytes =>
             /\ tasks' = tasks
             /\ cache' = cache
             /\ ~mainBlocked']_vars

\* C33: no message id is twice in the topic groups of the view.
C33_NoMessageTwice ==
    LET flat == Flat(messagesView.topic_views) IN
    \A i, j \in 1..Len(flat) : i # j => flat[i].id # flat[j].id

\* messages-loaded of the task was dispatched to the listeners.
LoadedDelivered(t) ==
    \E i \in 1..Len(delivered) :
       delivered[i].task = t /\ delivered[i].signal = "messages-loaded"

\* C34: when the newest pages of two or more narrows were asked for, the
\* last of them another narrow than those before, and every result has
\* been delivered, the view shows the narrow asked for last: its narrow is
\* that one and its groups hold the page of that narrow and nothing else.
C34_LastNarrowWins ==
    LET loads == MessagesTasks(TRUE) IN
    \A b \in loads :
       /\ \A t \in loads : t <= b
       /\ \E t \in loads : t # b
       /\ \A t \in loads : t # b => tasks[t].arg.narrow # tasks[b].arg.narrow
       /\ \A t \in loads : LoadedDelivered(t)
       => /\ messagesView.narrow = tasks[b].arg.narrow
          /\ Flat(messagesView.topic_views)
                = MessagesReply(serverMessages, tasks[b].arg).messages

\* C35: the account at each position of EventBus.accounts, the values of
\* the accounts map in order, has that position as its index.
C35_IndexIsPosition ==
    \A i \in 1..Len(registry) : accounts[registry[i].obj].index = i - 1

\* The LoadDataTasks of the url.
DataTasks(u) ==
    {t \in TaskIds : tasks[t].kind = "LoadDataTask" /\ tasks[t].arg = u}

\* C36: when every LoadDataTask of a url has ended without data-loaded,
\* its fetch having raised, a call of load_data_from_url for the url adds
\* a LoadDataTask for it.
C36_FailedFetchIsRetried ==
    [][\A u \in Urls :
          /\ load_data_from_url("a1", u)
          /\ DataTasks(u) # {}
          /\ \A t \in DataTasks(u) : pc[t] = "faulted"
          => /\ Len(tasks') = Len(tasks) + 1
             /\ Last(tasks') = Task("LoadDataTask", "a1", u)]_vars

\* A get_events call of a long-poll loop of the account came back with
\* the event.
Returned(a, id) ==
    \E t \in Monitors :
       /\ tasks[t].acct = a
       /\ \E i \in 1..Len(mon[t].history) :
             \E k \in 1..Len(mon[t].history[i].raw) :
                mon[t].history[i].raw[k].id = id

CursorBelowMalformed ==
    \A a \in Accts :
       \A k \in 1..Len(serverLog[a]) :
          ParseRaises(<<serverLog[a][k]>>) =>
             accounts[a].last_event_id < serverLog[a][k].id

\* C38: no handler of the view has raised: on_messages_loaded and
\* on_message_events complete for every batch and every event, on a view
\* without topic groups too.
C38_HandlersComplete == ~messagesView.raised

\* The task bytes of the pipe that the worker has not read.
TaskBytes == SelectSeq(pipe, LAMBDA b : b # 0)

\* How often the task was handed to pool.spawn and is waiting to start or
\* has started.
Spawns(t) ==
    Cardinality({i \in 1..Len(startQ \o startLog) : (startQ \o startLog)[i] = t})

\* C39: the worker never waits in get(): when the next byte of the pipe is
\* a task byte the queue holds a task, one for every unread task byte; a
\* task is spawned from the queue, once, and never goes back; and when the
\* worker has read the quit byte every task submitted before quit has been
\* spawned.
C39_ByteMeansTask ==
    /\ [](/\ worker # "blocked"
          /\ (worker = "running" /\ pipe # <<>> /\ Head(pipe) # 0)
                => taskQueue # <<>>
          /\ worker = "running" => Len(TaskBytes) = Len(taskQueue)
          /\ \A t \in TaskIds : Spawns(t) <= 1
          /\ worker # "running" =>
                \A t \in TaskIds : t <= quitAt => pc[t] # "queued")
    /\ [][\A t \in TaskIds :
             /\ pc[t] # "queued" => pc'[t] # "queued"
             /\ (pc'[t] = "spawned" /\ pc[t] # "spawned") =>
                   /\ pc[t] = "queued"
                   /\ taskQueue # <<>> /\ Head(taskQueue) = t
                   /\ Head(pipe) # 0
             /\ pc[t] \notin {"queued", "spawned"} => pc'[t] # "spawned"]_vars

\* The worker has ended on the quit byte: three tasks or more were
\* submitted before quit, each was spawned, and one submitted after quit
\* is in the queue.
C39_Witness ==
    /\ worker = "terminated"
    /\ quitAt >= 3
    /\ \A t \in TaskIds : t <= quitAt => pc[t] # "queued"
    /\ \E t \in TaskIds : t > quitAt /\ pc[t] = "queued"

====
